---- MODULE Spec2Model ----
(***************************************************************************)
(* A model of the irckit server engine: the registration handshake, the    *)
(* per-user command dispatcher, the server registry (users by nick,        *)
(* channels by name) and the channel fan-out, as written in src/server.go  *)
(* and in the channel implementation (src/unnamed/part_009).               *)
(*                                                                         *)
(* Every connection has two threads: the caller of Connect (the handshake) *)
(* and, once registered, the dispatcher goroutine (handle).  A thread      *)
(* takes one step per critical section or per batch of writes, so that     *)
(* the windows the code leaves open (between add and the welcome, between  *)
(* Server.Channel and Channel.Join, between HasChannel and Channel.Part,   *)
(* between an insert and its broadcast) are open in the model as well.     *)
(***************************************************************************)
EXTENDS Integers, Sequences, FiniteSets, TLC

\* ------------------------------------------------------------ bounds
\* Pool of user objects (connections); a specification connects a prefix of it.
NumUsers == 3
\* Pool of channel objects the server may allocate over a run.
MaxChanObjs == 2
\* Messages a client sends to its dispatcher after it registered (core).
MaxCmds == 2
\* Connections the clients break, and Channel.Close calls of the embedding
\* program, over a run.
MaxDrops == 1
MaxCloses == 1
\* Messages a client sends to its dispatcher in the chat specification, and its
\* connections.
ChatCmds == 3
ChatConns == 2
\* The same for the handshake specification.
HsCmds == 1
HsConns == 2
\* The same for the membership specification.
MemberCmds == 3
MemberConns == 2
\* The same for the conversation specification.
TalkCmds == 3
TalkConns == 2
\* Connections of the core specification (registry and membership).
CoreConns == 2
\* The unlink specification: connections, messages per client, and the
\* UnlinkChannel calls of the embedding program.
UnlinkConns == 2
UnlinkCmds == 2
MaxUnlinks == 2
\* Messages of a batch handed to one User.Encode call.
MaxBatch == 3
\* The batch specification: connections, and messages per client.
BatchConns == 2
BatchCmds == 2
\* The close specification: connections, and messages per client.
CloseConns == 2
CloseCmds == 1
OrderConns == 2
OrderCmds == 2
MaxSends == 2
ReapConns == 2
ReapCmds == 2
LockConns == 2
LockCmds == 2
ShutConns == 2
ShutCmds == 1
QuitConns == 2
QuitCmds == 2
FailConns == 3
FailCmds == 2
InviteConns == 2
InviteCmds == 2

\* ------------------------------------------------------------ program constants
handshakeMsgTolerance == 5

Users == 1..NumUsers
ChanObjs == 1..MaxChanObjs

\* ------------------------------------------------------------ names
\* A name is a sequence of characters, so that ID (strings.ToLower) is computed.
NoName == <<>>
SrvName == <<"s","r","v">>
NickFoo == <<"f">>
NickFooUp == <<"F">>
NickBaz == <<"b">>
ChanChat == <<"#","c">>
ChanChatUp == <<"#","C">>

LowerChar(c) ==
  CASE c = "F" -> "f"
    [] c = "B" -> "b"
    [] c = "C" -> "c"
    [] OTHER -> c

RECURSIVE ID(_)
ID(s) == IF s = <<>> THEN <<>> ELSE <<LowerChar(Head(s))>> \o ID(Tail(s))

\* Byte order of the characters, for sort.Strings.
Code(c) ==
  CASE c = "#" -> 35
    [] c = "B" -> 66
    [] c = "C" -> 67
    [] c = "F" -> 70
    [] c = "b" -> 98
    [] c = "c" -> 99
    [] c = "f" -> 102
    [] c = "q" -> 113
    [] c = "r" -> 114
    [] OTHER -> 0

RECURSIVE StrLess(_, _)
StrLess(a, b) ==
  IF b = <<>> THEN FALSE
  ELSE IF a = <<>> THEN TRUE
  ELSE IF Code(Head(a)) # Code(Head(b)) THEN Code(Head(a)) < Code(Head(b))
  ELSE StrLess(Tail(a), Tail(b))

RECURSIVE SortStrings(_)
SortStrings(S) ==
  IF S = {} THEN <<>>
  ELSE LET m == CHOOSE x \in S : \A y \in S \ {x} : StrLess(x, y)
       IN  <<m>> \o SortStrings(S \ {m})

\* ------------------------------------------------------------ Go maps
EmptyMap == [k \in {} |-> 0]
MapHas(m, k) == k \in DOMAIN m
MapPut(m, k, v) == [x \in DOMAIN m \cup {k} |-> IF x = k THEN v ELSE m[x]]
MapDel(m, k) == [x \in DOMAIN m \ {k} |-> m[x]]

VARIABLES
  Nick,        \* User.Nick
  UserName,    \* User.User
  uchannels,   \* User.channels: the channel objects the user joined
  users,       \* server.users: map ID -> user
  channels,    \* server.channels: map ID -> channel object
  chName,      \* channel.name (NoName: object not allocated yet)
  chServer,    \* channel.server # nil
  chKeep,      \* channel.keepEmpty
  usersIdx,    \* channel.usersIdx
  up,          \* the transport is open (neither side closed it)
  closeCount,  \* calls of User.Close hitting the transport
  closers,     \* spawned `go u.Close()` goroutines that have not run yet
  out,         \* messages written to the user's transport, in order
  events,      \* events published on the server's Publisher, in order
  cpc,         \* position of the thread that called Connect
  hsLeft,      \* handshake: remaining iterations of the read loop
  hsRead,      \* handshake: messages decoded so far (an observation)
  hpc,         \* position of the dispatcher goroutine (handle)
  hch,         \* dispatcher local: the channel object in hand
  hsnap,       \* the members right after Join inserted the user (an observation)
  hold,        \* dispatcher local: oldPrefix of a rename in progress
  connRet,     \* what Connect returned ("none" while it runs)
  cmdsLeft,    \* messages the client will still send to its dispatcher
  sent,        \* texts the client sent as channel PRIVMSG, in order
  rec,         \* the message and event kinds this run observes
  drops,       \* connections broken by their clients so far
  closes,      \* Channel.Close calls so far
  panicked,    \* a goroutine dereferenced a nil server: the process died
  smu,         \* server.RWMutex: the thread holding the write lock across steps
  spc,         \* position of the thread that called Server.Close
  channelEvents, \* server.channelEvents: the queue of cleanupEmpty (capacity 1)
  rpc,         \* position of the cleanupEmpty goroutine
  rch,         \* cleanupEmpty local: the channel of the event in hand
  sends,       \* events sent to channelEvents so far
  unlinks,     \* UnlinkChannel calls of the embedding program so far
  hbatch,      \* dispatcher in User.Encode: the messages still to write
  ltrace,      \* each thread's lock, unlock and Encode calls in its current
               \* operation, in program order (an observation)
  encIn,       \* a call of User.Encode on its own: the batch, and which writes fail
  encRes,      \* its result: the stream written and the error returned
  inviteOnly   \* config.InviteOnly

vars == <<Nick, UserName, uchannels, users, channels, chName, chServer, chKeep,
          usersIdx, up, closeCount, closers, out, events, cpc, hsLeft, hsRead,
          connRet,
          hpc, hch, hsnap, hold, cmdsLeft, sent, rec, drops, closes, panicked,
          smu, spc, channelEvents, rpc, rch, sends, unlinks, hbatch, ltrace,
          encIn, encRes, inviteOnly>>

userVars == <<Nick, UserName, uchannels>>
chanVars == <<channels, chName, chServer, chKeep, usersIdx, closes>>
connVars == <<up, closeCount, closers, drops, rec>>
hsVars == <<cpc, hsLeft, hsRead, connRet>>
dispVars == <<hpc, hch, hsnap, hold, cmdsLeft, sent>>
\* Server.Close, the reaper, the embedding program's UnlinkChannel calls, a
\* batch in progress, the Encode call on its own and the configuration.
extVars == <<smu, spc, channelEvents, rpc, rch, sends, unlinks, hbatch, encIn,
             encRes, inviteOnly>>

\* The threads: one per connection (Connect, then the dispatcher), the thread
\* that calls Server.Close, the cleanupEmpty goroutine and the embedding
\* program calling into channels.
Closer == NumUsers + 1
Reaper == NumUsers + 2
Embedder == NumUsers + 3
Threads == 1..(NumUsers + 3)

\* The server's lock is free (Lock and RLock both wait for a writer).
RegFree == smu = "none"

\* The events of thread t's operation so far, then ev; the same, starting a
\* new operation.  (Observed when rec holds "locks".)
Traced(t, ev) == IF "locks" \in rec THEN [ltrace EXCEPT ![t] = @ \o ev] ELSE ltrace
TracedNew(t, ev) == IF "locks" \in rec THEN [ltrace EXCEPT ![t] = ev] ELSE ltrace

\* ------------------------------------------------------------ messages
\* src: the user object whose channel PRIVMSG this is (0 otherwise); the wire
\* carries only the prefix, which a rename changes.
Msg(cmd, pfx, p, t) == [cmd |-> cmd, pfx |-> pfx, p |-> p, t |-> t, src |-> 0]

\* User.Encode of one message: written if the transport is open, else an error.
\* (The streams are observations, of the message kinds in rec.)
Encode(o, u, m) == IF up[u] /\ m.cmd \in rec THEN [o EXCEPT ![u] = Append(@, m)] ELSE o

\* The same message to every user of R (each stream gets it once).
EncodeEachUntilError(o, R, m) ==
  [u \in Users |-> IF u \in R /\ (\A v \in R : up[v]) /\ m.cmd \in rec
                   THEN Append(o[u], m) ELSE o[u]]
EncodeEach(o, R, m) ==
  [u \in Users |-> IF u \in R /\ up[u] /\ m.cmd \in rec THEN Append(o[u], m) ELSE o[u]]

\* Publisher.Publish: synchronous delivery to the subscribers, in order.
Publish(log, kind, u, c) ==
  IF kind \in rec THEN Append(log, [kind |-> kind, user |-> u, chan |-> c]) ELSE log

\* ------------------------------------------------------------ construction
\* NewServer and NewUser: empty registry, the first n connections accepted and
\* handed to Connect, the other user objects not in use.
\* User.Encode on its own has not returned.
NoResult == [stream |-> <<>>, err |-> -1]

InitBase(n, cmds, r) ==
  /\ Nick = [u \in Users |-> NoName]
  /\ UserName = [u \in Users |-> NoName]
  /\ uchannels = [u \in Users |-> {}]
  /\ users = EmptyMap
  /\ channels = EmptyMap
  /\ chName = [c \in ChanObjs |-> NoName]
  /\ chServer = [c \in ChanObjs |-> FALSE]
  /\ chKeep = [c \in ChanObjs |-> FALSE]
  /\ usersIdx = [c \in ChanObjs |-> {}]
  /\ up = [u \in Users |-> TRUE]
  /\ closeCount = [u \in Users |-> 0]
  /\ closers = [u \in Users |-> 0]
  /\ out = [u \in Users |-> <<>>]
  /\ events = <<>>
  /\ cpc = [u \in Users |-> IF u <= n THEN "hs" ELSE "absent"]
  /\ hsLeft = [u \in Users |-> handshakeMsgTolerance]
  /\ hsRead = [u \in Users |-> 0]
  /\ connRet = [u \in Users |-> "none"]
  /\ hpc = [u \in Users |-> "none"]
  /\ hch = [u \in Users |-> 0]
  /\ hsnap = [u \in Users |-> {}]
  /\ hold = [u \in Users |-> NoName]
  /\ cmdsLeft = [u \in Users |-> cmds]
  /\ sent = [u \in Users |-> <<>>]
  /\ rec = r
  /\ drops = 0
  /\ closes = 0
  /\ panicked = FALSE
  /\ smu = "none"
  /\ spc = "idle"
  /\ channelEvents = <<>>
  /\ rpc = "off"
  /\ rch = 0
  /\ sends = 0
  /\ unlinks = 0
  /\ hbatch = [u \in Users |-> <<>>]
  /\ ltrace = [t \in Threads |-> <<>>]
  /\ encRes = NoResult

\* No call of User.Encode on its own.
InitConns(n, cmds, r) ==
  /\ InitBase(n, cmds, r)
  /\ encIn = [msgs |-> <<>>, fails |-> <<>>]
  /\ inviteOnly = FALSE

\* ------------------------------------------------------------ server.add
NoCheckAddOk(u, nick) == TRUE
addOk(u, nick) == ~MapHas(users, ID(nick))

\* ------------------------------------------------------------ server.handshake / Connect
\* The iteration ends with `continue`: one unit of the budget is spent, and when
\* none is left handshake returns ErrHandshakeFailed and Connect closes the user.
HsContinueUncounted(u) ==
  UNCHANGED <<hsLeft, cpc, connRet, up, closeCount>>
HsContinue(u) ==
  /\ hsLeft' = [hsLeft EXCEPT ![u] = @ - 1]
  /\ IF hsLeft[u] - 1 > 0
     THEN /\ cpc' = cpc
          /\ UNCHANGED <<connRet, up, closeCount>>
     ELSE /\ cpc' = [cpc EXCEPT ![u] = "failed"]
          /\ connRet' = [connRet EXCEPT ![u] = "ErrHandshakeFailed"]
          /\ up' = [up EXCEPT ![u] = FALSE]
          /\ closeCount' = [closeCount EXCEPT ![u] = @ + 1]

\* Decode fails in the handshake: handshake returns the error, Connect closes.
HandshakeDecodeErr(u) ==
  /\ ~panicked /\ cpc[u] = "hs" /\ ~up[u]
  /\ cpc' = [cpc EXCEPT ![u] = "failed"]
  /\ connRet' = [connRet EXCEPT ![u] = "errDecode"]
  /\ closeCount' = [closeCount EXCEPT ![u] = @ + 1]
  /\ UNCHANGED <<userVars, users, chanVars, up, closers, drops, rec, out, events,
                 hsLeft, hsRead, dispVars, panicked>>
  /\ UNCHANGED extVars
  /\ UNCHANGED ltrace

\* The nick and user an iteration on m leaves; the iteration reaches s.add;
\* its lock, unlock and Encode calls.
HsNick(u, m) ==
  CASE m.cmd = "NICK" -> m.p[1]
    [] m.cmd = "USER" /\ Nick[u] = NoName -> m.p[1]
    [] OTHER -> Nick[u]
HsUser(u, m) == IF m.cmd = "USER" THEN m.p[1] ELSE UserName[u]
HsAdds(u, m) == Len(m.p) >= 1 /\ HsNick(u, m) # NoName /\ HsUser(u, m) # NoName
HandshakeTrace(u, m) ==
  IF Len(m.p) < 1 THEN <<"Encode">>
  ELSE IF ~HsAdds(u, m) THEN <<>>
  ELSE IF ~addOk(u, HsNick(u, m)) THEN <<"s.Lock", "s.Unlock", "Encode">>
  ELSE <<"s.Lock", "s.Unlock">>

\* One iteration of the handshake loop on a decoded message m = [cmd, p, t].
HandshakeMsg(u, m) ==
  /\ ~panicked /\ cpc[u] = "hs" /\ up[u]
  /\ hsRead' = [hsRead EXCEPT ![u] = @ + 1]
  /\ UNCHANGED <<uchannels, chanVars, closers, drops, rec, events, dispVars,
                 panicked>>
  /\ IF Len(m.p) < 1
     THEN /\ out' = Encode(out, u, Msg("461", SrvName, <<m.cmd>>, NoName))
          /\ HsContinue(u)
          /\ UNCHANGED <<Nick, UserName, users>>
     ELSE LET nick == CASE m.cmd = "NICK" -> m.p[1]
                        [] m.cmd = "USER" /\ Nick[u] = NoName -> m.p[1]
                        [] OTHER -> Nick[u]
              user == IF m.cmd = "USER" THEN m.p[1] ELSE UserName[u]
          IN  /\ Nick' = [Nick EXCEPT ![u] = nick]
              /\ UserName' = [UserName EXCEPT ![u] = user]
              /\ IF nick = NoName \/ user = NoName
                 THEN /\ HsContinue(u)
                      /\ UNCHANGED <<users, out>>
                 ELSE IF ~addOk(u, nick)
                 THEN /\ out' = Encode(out, u, Msg("433", SrvName, <<nick>>, NoName))
                      /\ HsContinue(u)
                      /\ UNCHANGED users
                 ELSE /\ users' = MapPut(users, ID(nick), u)
                      /\ cpc' = [cpc EXCEPT ![u] = "welcome"]
                      /\ UNCHANGED <<out, hsLeft, connRet, up, closeCount>>
  /\ HsAdds(u, m) => RegFree
  /\ UNCHANGED extVars
  /\ ltrace' = TracedNew(u, HandshakeTrace(u, m))

\* handshake returns the result of writing RPL_WELCOME; on success Connect
\* spawns the dispatcher, on failure it closes the user and returns the error.
WelcomeUserName(u) == Msg("001", SrvName, <<UserName[u]>>, NoName)
WelcomeMsg(u) == Msg("001", SrvName, <<Nick[u]>>, NoName)
Welcome(u) ==
  /\ ~panicked /\ cpc[u] = "welcome"
  /\ out' = Encode(out, u, WelcomeMsg(u))
  /\ IF up[u]
     THEN /\ cpc' = [cpc EXCEPT ![u] = "publish"]
          /\ hpc' = [hpc EXCEPT ![u] = "loop"]
          /\ UNCHANGED <<connRet, closeCount>>
     ELSE /\ cpc' = [cpc EXCEPT ![u] = "failed"]
          /\ connRet' = [connRet EXCEPT ![u] = "errEncode"]
          /\ closeCount' = [closeCount EXCEPT ![u] = @ + 1]
          /\ UNCHANGED hpc
  /\ UNCHANGED <<userVars, users, chanVars, up, closers, drops, rec, events,
                 hsLeft, hsRead, hch, hsnap, hold, cmdsLeft, sent, panicked>>
  /\ UNCHANGED extVars
  /\ ltrace' = Traced(u, <<"Encode">>)

\* Connect, after `go s.handle(u)`: publish the Connect event and return nil.
ConnectPublish(u) ==
  /\ ~panicked /\ cpc[u] = "publish"
  /\ events' = Publish(events, "Connect", u, 0)
  /\ cpc' = [cpc EXCEPT ![u] = "done"]
  /\ connRet' = [connRet EXCEPT ![u] = "nil"]
  /\ UNCHANGED <<userVars, users, chanVars, connVars, out, hsLeft, hsRead,
                 dispVars, panicked>>
  /\ UNCHANGED extVars
  /\ UNCHANGED ltrace

\* ------------------------------------------------------------ the transport
\* The client closes its end (or the connection breaks).
ClientDrop(u) ==
  /\ ~panicked /\ cpc[u] # "absent" /\ up[u] /\ drops < MaxDrops
  /\ up' = [up EXCEPT ![u] = FALSE]
  /\ drops' = drops + 1
  /\ UNCHANGED <<userVars, users, chanVars, closeCount, closers, rec, out, events,
                 hsVars, dispVars, panicked>>
  /\ UNCHANGED extVars
  /\ UNCHANGED ltrace

\* A `go u.Close()` goroutine spawned by Quit runs.
CloseRun(u) ==
  /\ ~panicked /\ closers[u] > 0
  /\ closers' = [closers EXCEPT ![u] = @ - 1]
  /\ closeCount' = [closeCount EXCEPT ![u] = @ + 1]
  /\ up' = [up EXCEPT ![u] = FALSE]
  /\ UNCHANGED <<userVars, users, chanVars, drops, rec, out, events, hsVars,
                 dispVars, panicked>>
  /\ UNCHANGED extVars
  /\ UNCHANGED ltrace

\* ------------------------------------------------------------ server.handle
\* Decode fails in the dispatcher: it returns, and the deferred Quit is next.
HandleDecodeErr(u) ==
  /\ ~panicked /\ hpc[u] = "loop" /\ ~up[u]
  /\ hpc' = [hpc EXCEPT ![u] = "quit"]
  /\ UNCHANGED <<userVars, users, chanVars, connVars, out, events, hsVars, hch,
                 hsnap, hold, cmdsLeft, sent, panicked>>
  /\ UNCHANGED extVars
  /\ UNCHANGED ltrace

\* The dispatcher decodes the client's next message.
Decoded(u) ==
  /\ ~panicked /\ hpc[u] = "loop" /\ up[u] /\ cmdsLeft[u] > 0
  /\ cmdsLeft' = [cmdsLeft EXCEPT ![u] = @ - 1]

\* A command with no parameter where one is required (PART, JOIN, NAMES, WHO,
\* PRIVMSG, NICK): ERR_NEEDMOREPARAMS, and the loop goes on.
\* JOIN with a parameter on an invite-only server: ERR_INVITEONLYCHAN, whose
\* write error ends the dispatcher; Server.Channel is not called.
TextInvite == <<"+","i">>
HandleJoinInviteOnly(u, name) ==
  /\ Decoded(u)
  /\ inviteOnly
  /\ out' = Encode(out, u, Msg("473", SrvName, <<>>, TextInvite))
  /\ hpc' = [hpc EXCEPT ![u] = IF up[u] THEN "loop" ELSE "quit"]
  /\ UNCHANGED <<userVars, users, chanVars, connVars, events, hsVars, hch,
                 hsnap, hold, sent, panicked>>
  /\ UNCHANGED extVars
  /\ ltrace' = TracedNew(u, <<"Encode">>)

HandleNoParams(u, cmd) ==
  /\ Decoded(u)
  /\ out' = Encode(out, u, Msg("461", SrvName, <<cmd>>, NoName))
  /\ UNCHANGED <<userVars, users, chanVars, connVars, events, hsVars, hpc, hch,
                 hsnap, hold, sent, panicked>>
  /\ UNCHANGED extVars
  /\ ltrace' = TracedNew(u, <<"Encode">>)

\* QUIT: the echo, the ERROR, the Quit event, return.
HandleQuitErrorFirst(u, t) ==
  /\ Decoded(u)
  /\ out' = Encode(Encode(out, u, Msg("ERROR", SrvName, <<>>, <<"m","i","s","s","e","d">>)),
                   u, Msg("QUIT", Nick[u], <<>>, t))
  /\ events' = Publish(events, "Quit", u, 0)
  /\ hpc' = [hpc EXCEPT ![u] = "quit"]
  /\ UNCHANGED <<userVars, users, chanVars, connVars, hsVars, hch, hsnap, hold,
                 sent, panicked>>
  /\ UNCHANGED extVars
  /\ ltrace' = TracedNew(u, <<"Encode", "Encode">>)
HandleQuit(u, t) ==
  /\ Decoded(u)
  /\ out' = Encode(Encode(out, u, Msg("QUIT", Nick[u], <<>>, t)),
                   u, Msg("ERROR", SrvName, <<>>, <<"m","i","s","s","e","d">>))
  /\ events' = Publish(events, "Quit", u, 0)
  /\ hpc' = [hpc EXCEPT ![u] = "quit"]
  /\ UNCHANGED <<userVars, users, chanVars, connVars, hsVars, hch, hsnap, hold,
                 sent, panicked>>
  /\ UNCHANGED extVars
  /\ ltrace' = TracedNew(u, <<"Encode", "Encode">>)

\* PING: PONG with the same trailing; a failed write ends the dispatcher.
HandlePing(u, t) ==
  /\ Decoded(u)
  /\ out' = Encode(out, u, Msg("PONG", SrvName, <<SrvName>>, t))
  /\ hpc' = [hpc EXCEPT ![u] = IF up[u] THEN "loop" ELSE "quit"]
  /\ UNCHANGED <<userVars, users, chanVars, connVars, events, hsVars, hch,
                 hsnap, hold, sent, panicked>>
  /\ UNCHANGED extVars
  /\ ltrace' = TracedNew(u, <<"Encode">>)

\* ------------------------------------------------------------ server.RenameUser
\* The registry after a successful rename of u from its nick to newNick.
RenameKeepsOld(u, newNick) == MapPut(users, ID(newNick), u)
RenameRegistry(u, newNick) == MapPut(MapDel(users, ID(Nick[u])), ID(newNick), u)

\* NICK: the part of RenameUser under the registry lock (and, on a collision,
\* the ERR_NICKNAMEINUSE written after the unlock).
NickTakenByOther(u, newNick) ==
  MapHas(users, ID(newNick)) /\ users[ID(newNick)] # u
NickTaken(u, newNick) == MapHas(users, ID(newNick))
\* The lock, unlock and Encode calls of RenameUser up to its second unlock.
RenameTraceDeferred(u, newNick) ==
  IF NickTaken(u, newNick) THEN <<"s.Lock", "Encode", "s.Unlock">>
  ELSE <<"s.Lock", "s.Unlock">>
RenameTrace(u, newNick) ==
  IF NickTaken(u, newNick) THEN <<"s.Lock", "s.Unlock", "Encode">>
  ELSE <<"s.Lock", "s.Unlock">>
\* The member sets after a rename: RenameUser touches no channel, and a channel
\* indexes its members by the User object, not by the nick.
RenameMembershipByID(u) == [c \in ChanObjs |-> usersIdx[c] \ {u}]
RenameMembership(u) == usersIdx
HandleNick(u, newNick) ==
  /\ Decoded(u)
  /\ IF NickTaken(u, newNick)
     THEN /\ out' = Encode(out, u, Msg("433", SrvName, <<newNick>>, NoName))
          /\ UNCHANGED <<Nick, users, hpc, hold>>
     ELSE /\ users' = RenameRegistry(u, newNick)
          /\ hold' = [hold EXCEPT ![u] = Nick[u]]
          /\ Nick' = [Nick EXCEPT ![u] = newNick]
          /\ hpc' = [hpc EXCEPT ![u] = "nick_bcast"]
          /\ UNCHANGED out
  /\ usersIdx' = RenameMembership(u)
  /\ UNCHANGED <<UserName, uchannels, channels, chName, chServer, chKeep, closes,
                 connVars, events, hsVars, hch, hsnap, sent, panicked>>
  /\ RegFree
  /\ UNCHANGED extVars
  /\ ltrace' = TracedNew(u, RenameTrace(u, newNick))

\* User.ForSeen / VisibleTo: the users other than u found in u's channels.
VisibleTo(u) == {v \in Users \ {u} : \E c \in uchannels[u] : v \in usersIdx[c]}

\* RenameUser after the unlock: the NICK message to u and to all it is visible to.
ChangeMsgNewPrefix(u) == Msg("NICK", Nick[u], <<Nick[u]>>, NoName)
ChangeMsg(u) == Msg("NICK", hold[u], <<Nick[u]>>, NoName)
NickBroadcast(u) ==
  /\ ~panicked /\ hpc[u] = "nick_bcast"
  /\ out' = EncodeEach(out, {u} \cup VisibleTo(u), ChangeMsg(u))
  /\ hpc' = [hpc EXCEPT ![u] = "loop"]
  /\ hold' = [hold EXCEPT ![u] = NoName]
  /\ UNCHANGED <<userVars, users, chanVars, connVars, events, hsVars, hch,
                 hsnap, cmdsLeft, sent, panicked>>
  /\ UNCHANGED extVars
  /\ ltrace' = Traced(u, IF VisibleTo(u) = {} THEN <<"Encode">> ELSE <<"Encode", "Encode">>)

\* ------------------------------------------------------------ server.Channel
\* NewChannel allocates a fresh channel object.
FreshChan == CHOOSE c \in ChanObjs : chName[c] = NoName /\
                                    \A d \in ChanObjs : chName[d] = NoName => c <= d

\* JOIN, first half: s.Channel(name) gets or creates the channel (publishing
\* NewChannel for a created one); the dispatcher holds it for Join.
ChannelNeverExists(name) == FALSE
ChannelExists(name) == MapHas(channels, ID(name))
\* JOIN goes on to Server.Channel unless the server is invite-only.
JoinAllowedAlways == TRUE
JoinAllowed == ~inviteOnly
HandleJoin(u, name, keep) ==
  /\ Decoded(u)
  /\ JoinAllowed
  /\ IF ChannelExists(name)
     THEN /\ hch' = [hch EXCEPT ![u] = channels[ID(name)]]
          /\ UNCHANGED <<chanVars, events>>
     ELSE /\ \E c \in ChanObjs : chName[c] = NoName
          /\ LET c == FreshChan
             IN  /\ chName' = [chName EXCEPT ![c] = name]
                 /\ chServer' = [chServer EXCEPT ![c] = TRUE]
                 /\ chKeep' = [chKeep EXCEPT ![c] = keep]
                 /\ channels' = MapPut(channels, ID(name), c)
                 /\ hch' = [hch EXCEPT ![u] = c]
                 /\ events' = Publish(events, "NewChannel", 0, c)
                 /\ UNCHANGED <<usersIdx, closes>>
  /\ hpc' = [hpc EXCEPT ![u] = "join"]
  /\ UNCHANGED <<userVars, users, connVars, out, hsVars, hsnap, hold, sent,
                 panicked>>
  /\ RegFree
  /\ UNCHANGED extVars
  /\ ltrace' = TracedNew(u, <<"s.Lock", "s.Unlock">>)

\* ------------------------------------------------------------ channel.Join
\* Join under the channel lock: an existing member returns nil at once (and the
\* dispatcher publishes Join); a new one is inserted, and u.channels updated.
NeverMember(u, c) == FALSE
AlreadyMember(u, c) == u \in usersIdx[c]

\* ch.mu of channel c is free: no Part holds it while waiting for the registry.
ChanFree(c) == \A v \in Users : ~(hpc[v] = "part_unlink" /\ hch[v] = c)
JoinInsert(u) ==
  /\ ~panicked /\ hpc[u] = "join"
  /\ ChanFree(hch[u])
  /\ LET c == hch[u]
     IN  IF AlreadyMember(u, c)
         THEN /\ events' = Publish(events, "Join", u, c)
              /\ hpc' = [hpc EXCEPT ![u] = "loop"]
              /\ hch' = [hch EXCEPT ![u] = 0]
              /\ UNCHANGED <<usersIdx, uchannels, hsnap>>
         ELSE /\ usersIdx' = [usersIdx EXCEPT ![c] = @ \cup {u}]
              /\ hsnap' = [hsnap EXCEPT ![u] = usersIdx[c] \cup {u}]
              /\ uchannels' = [uchannels EXCEPT ![u] = @ \cup {c}]
              /\ hpc' = [hpc EXCEPT ![u] = "join_bcast"]
              /\ UNCHANGED <<events, hch>>
  /\ UNCHANGED <<Nick, UserName, users, channels, chName, chServer, chKeep,
                 closes, connVars, out, hsVars, hold, cmdsLeft, sent, panicked>>
  /\ UNCHANGED extVars
  /\ ltrace' = Traced(u, IF AlreadyMember(u, hch[u])
                           THEN <<"ch.mu.Lock", "ch.mu.Unlock">>
                           ELSE <<"ch.mu.Lock", "ch.mu.Unlock", "u.Lock", "u.Unlock">>)

\* Join after the unlock: the JOIN message to whoever is in usersIdx now.
JoinBroadcast(u) ==
  /\ ~panicked /\ hpc[u] = "join_bcast"
  /\ out' = EncodeEach(out, usersIdx[hch[u]],
                       Msg("JOIN", Nick[u], <<chName[hch[u]]>>, NoName))
  /\ hpc' = [hpc EXCEPT ![u] = "join_reply"]
  /\ hsnap' = [hsnap EXCEPT ![u] = {}]
  /\ UNCHANGED <<userVars, users, chanVars, connVars, events, hsVars, hch, hold,
                 cmdsLeft, sent, panicked>>
  /\ UNCHANGED extVars
  /\ ltrace' = Traced(u, <<"Encode">>)

\* channel.Names: the members' nicks, sorted.
Names(c) == SortStrings({Nick[v] : v \in usersIdx[c]})

\* The three replies Join writes to the joining user, in the order of the call.
JoinReplies(u, c) ==
  << Msg("331", SrvName, <<chName[c]>>, NoName),
     Msg("353", SrvName, <<Nick[u], <<"=">>, chName[c]>>, Names(c)),
     Msg("366", SrvName, <<Nick[u]>>, NoName) >>

\* Join, the replies (ch.server.Prefix() is a nil dereference once the channel
\* was unlinked); then the dispatcher publishes Join if err == nil, and returns
\* on an error.
JoinReply(u) ==
  /\ ~panicked /\ hpc[u] = "join_reply"
  /\ LET c == hch[u]
         r == JoinReplies(u, c)
     IN  IF ~chServer[c]
         THEN /\ panicked' = TRUE
              /\ UNCHANGED <<out, events, hpc, hch>>
         ELSE /\ out' = Encode(Encode(Encode(out, u, r[1]), u, r[2]), u, r[3])
              /\ events' = IF up[u] THEN Publish(events, "Join", u, c) ELSE events
              /\ hpc' = [hpc EXCEPT ![u] = IF up[u] THEN "loop" ELSE "quit"]
              /\ hch' = [hch EXCEPT ![u] = 0]
              /\ UNCHANGED panicked
  /\ UNCHANGED <<userVars, users, chanVars, connVars, hsVars, hsnap, hold,
                 cmdsLeft, sent>>
  /\ UNCHANGED extVars
  /\ ltrace' = Traced(u, <<"ch.mu.RLock", "ch.mu.RUnlock", "Encode", "Encode", "Encode">>)

\* ------------------------------------------------------------ server.UnlinkChannel
\* The channel index after UnlinkChannel(c): the entry goes only if it is c.
UnlinkNothing(c) == channels
UnlinkByName(c) == MapDel(channels, ID(chName[c]))
UnlinkChannel(c) ==
  IF MapHas(channels, ID(chName[c])) /\ channels[ID(chName[c])] = c
  THEN MapDel(channels, ID(chName[c]))
  ELSE channels

\* ------------------------------------------------------------ channel.Part
\* PART, first half: HasChannel; an unknown name gets ERR_NOSUCHCHANNEL.
HandlePart(u, name) ==
  /\ Decoded(u)
  /\ IF MapHas(channels, ID(name))
     THEN /\ hch' = [hch EXCEPT ![u] = channels[ID(name)]]
          /\ hpc' = [hpc EXCEPT ![u] = "part"]
          /\ UNCHANGED out
     ELSE /\ out' = Encode(out, u, Msg("403", SrvName, <<name>>, NoName))
          /\ UNCHANGED <<hch, hpc>>
  /\ UNCHANGED <<userVars, users, chanVars, connVars, events, hsVars, hsnap,
                 hold, sent, panicked>>
  /\ RegFree
  /\ UNCHANGED extVars
  /\ ltrace' = TracedNew(u, IF MapHas(channels, ID(name))
                              THEN <<"s.RLock", "s.RUnlock">>
                              ELSE <<"s.RLock", "s.RUnlock", "Encode">>)

\* channel.Part under the channel lock: a non-member gets ERR_NOTONCHANNEL (with
\* ch.server.Prefix(), a nil dereference once unlinked); a member's PART goes to
\* every member, the member is deleted, and an emptied channel is unlinked.
\* This Part takes the last member out and unlinks the channel; the lock,
\* unlock and Encode calls of Part, with those of UnlinkChannel inside.
PartUnlinks(u) ==
  LET c == hch[u]
  IN  u \in usersIdx[c] /\ ~chKeep[c] /\ usersIdx[c] \ {u} = {} /\ chServer[c]
PartTrace(u) ==
  IF u \notin usersIdx[hch[u]] THEN <<"ch.mu.Lock", "ch.mu.Unlock", "Encode">>
  ELSE IF PartUnlinks(u)
  THEN <<"ch.mu.Lock", "Encode", "s.Lock", "s.Unlock", "ch.mu.Unlock">>
  ELSE <<"ch.mu.Lock", "Encode", "ch.mu.Unlock">>
PartOthers(u, c) == usersIdx[c] \ {u}
PartRecipients(u, c) == usersIdx[c]
ChannelPart(u) ==
  /\ ~panicked /\ hpc[u] = "part"
  /\ ChanFree(hch[u])
  /\ LET c == hch[u]
         left == usersIdx[c] \ {u}
     IN  IF u \notin usersIdx[c]
         THEN /\ IF chServer[c]
                 THEN /\ out' = Encode(out, u, Msg("442", SrvName, <<chName[c]>>, NoName))
                      /\ hpc' = [hpc EXCEPT ![u] = "loop"]
                      /\ hch' = [hch EXCEPT ![u] = 0]
                      /\ UNCHANGED panicked
                 ELSE /\ panicked' = TRUE
                      /\ UNCHANGED <<out, hpc, hch>>
              /\ UNCHANGED <<usersIdx, channels, chServer, uchannels>>
         ELSE /\ out' = EncodeEach(out, PartRecipients(u, c),
                                   Msg("PART", Nick[u], <<chName[c]>>, NoName))
              /\ usersIdx' = [usersIdx EXCEPT ![c] = left]
              /\ UNCHANGED uchannels
              /\ IF ~chKeep[c] /\ left = {} /\ chServer[c]
                 THEN /\ channels' = UnlinkChannel(c)
                      /\ chServer' = [chServer EXCEPT ![c] = FALSE]
                 ELSE UNCHANGED <<channels, chServer>>
              /\ hpc' = [hpc EXCEPT ![u] = "loop"]
              /\ hch' = [hch EXCEPT ![u] = 0]
              /\ UNCHANGED panicked
  /\ UNCHANGED <<Nick, UserName, users, chName, chKeep, closes, connVars, events,
                 hsVars, hsnap, hold, cmdsLeft, sent>>
  /\ PartUnlinks(u) => RegFree
  /\ UNCHANGED extVars
  /\ ltrace' = Traced(u, PartTrace(u))

\* channel.Part of the last member of a channel that is not kept, up to the
\* call of UnlinkChannel: ch.mu is taken, PART is written to every member and
\* the member is deleted; ch.mu stays held while the registry lock is awaited.
PartLocked(u) ==
  /\ ~panicked /\ hpc[u] = "part"
  /\ ChanFree(hch[u])
  /\ PartUnlinks(u)
  /\ LET c == hch[u]
     IN  /\ out' = EncodeEach(out, PartRecipients(u, c),
                              Msg("PART", Nick[u], <<chName[c]>>, NoName))
         /\ usersIdx' = [usersIdx EXCEPT ![c] = @ \ {u}]
  /\ hpc' = [hpc EXCEPT ![u] = "part_unlink"]
  /\ UNCHANGED <<Nick, UserName, users, chName, chKeep, closes, connVars, events,
                 hsVars, hsnap, hold, cmdsLeft, sent, hch, channels, chServer,
                 uchannels, panicked>>
  /\ UNCHANGED extVars
  /\ ltrace' = Traced(u, <<"ch.mu.Lock", "Encode">>)

\* The rest of that Part: UnlinkChannel takes the registry lock, deletes the
\* entry if it is this channel, unlocks; then ch.server = nil and ch.mu.Unlock.
PartUnlink(u) ==
  /\ ~panicked /\ hpc[u] = "part_unlink"
  /\ RegFree
  /\ channels' = UnlinkChannel(hch[u])
  /\ chServer' = [chServer EXCEPT ![hch[u]] = FALSE]
  /\ hpc' = [hpc EXCEPT ![u] = "loop"]
  /\ hch' = [hch EXCEPT ![u] = 0]
  /\ UNCHANGED <<Nick, UserName, users, chName, chKeep, closes, connVars, events,
                 hsVars, hsnap, hold, cmdsLeft, sent, out, usersIdx, uchannels,
                 panicked>>
  /\ UNCHANGED extVars
  /\ ltrace' = Traced(u, <<"s.Lock", "s.Unlock", "ch.mu.Unlock">>)

\* ------------------------------------------------------------ channel.Close
\* Close (called by the embedding program): every member is sent a PART with
\* its own prefix, and the member set is cleared.
ChannelClose(c) ==
  /\ ~panicked /\ chName[c] # NoName /\ usersIdx[c] # {} /\ closes < MaxCloses
  /\ closes' = closes + 1
  /\ out' = [u \in Users |->
               IF u \in usersIdx[c] /\ up[u] /\ "PART" \in rec
               THEN Append(out[u], Msg("PART", Nick[u], <<chName[c]>>, NoName))
               ELSE out[u]]
  /\ usersIdx' = [usersIdx EXCEPT ![c] = {}]
  /\ UNCHANGED <<userVars, users, channels, chName, chServer, chKeep, connVars,
                 events, hsVars, dispVars, panicked>>
  /\ UNCHANGED extVars
  /\ ltrace' = TracedNew(Embedder, <<"ch.mu.Lock", "Encode", "ch.mu.Unlock">>)

\* ------------------------------------------------------------ PRIVMSG
\* A write to a stream: what Encoder.Encode does with the message.
DeliverFront(stream, m) == <<m>> \o stream
Deliver(stream, m) == Append(stream, m)

\* channel.Message: to every member but the sender.
ChannelMessageEcho(o, from, c, t) ==
  [v \in Users |->
     IF v \in usersIdx[c] /\ up[v] /\ "PRIVMSG" \in rec
     THEN Deliver(o[v], [Msg("PRIVMSG", Nick[from], <<chName[c]>>, t)
                           EXCEPT !.src = from])
     ELSE o[v]]
ChannelMessage(o, from, c, t) ==
  [v \in Users |->
     IF v \in usersIdx[c] /\ v # from /\ up[v] /\ "PRIVMSG" \in rec
     THEN Deliver(o[v], [Msg("PRIVMSG", Nick[from], <<chName[c]>>, t)
                           EXCEPT !.src = from])
     ELSE o[v]]

\* PRIVMSG: a channel of that ID first, else a user of that ID, else
\* ERR_NOSUCHNICK (whose failed write ends the dispatcher).
RouteUserFirst(target) ==
  IF MapHas(users, ID(target)) THEN "user"
  ELSE IF MapHas(channels, ID(target)) THEN "chan" ELSE "none"
Route(target) ==
  IF MapHas(channels, ID(target)) THEN "chan"
  ELSE IF MapHas(users, ID(target)) THEN "user" ELSE "none"
\* The lock, unlock and Encode calls of PRIVMSG: HasChannel and Message, or
\* HasChannel, HasUser and the write.
PrivmsgTrace(u, target) ==
  IF Route(target) = "chan"
  THEN <<"s.RLock", "s.RUnlock", "ch.mu.RLock">>
       \o (IF usersIdx[channels[ID(target)]] \ {u} = {} THEN <<>> ELSE <<"Encode">>)
       \o <<"ch.mu.RUnlock">>
  ELSE <<"s.RLock", "s.RUnlock", "s.RLock", "s.RUnlock", "Encode">>
UserMsgParamsTarget(to, target) == <<target>>
UserMsgParams(to, target) == <<Nick[to]>>
HandlePrivmsg(u, target, t) ==
  /\ Decoded(u)
  /\ IF Route(target) = "chan"
     THEN LET c == channels[ID(target)]
          IN  /\ out' = ChannelMessage(out, u, c, t)
              /\ events' = Publish(events, "ChanMsg", u, c)
              /\ sent' = [sent EXCEPT ![u] = IF "PRIVMSG" \in rec THEN Append(@, <<c, t>>) ELSE @]
              /\ UNCHANGED hpc
     ELSE IF Route(target) = "user"
     THEN LET to == users[ID(target)]
          IN  /\ out' = Encode(out, to, Msg("PRIVMSG", Nick[u],
                                             UserMsgParams(to, target), t))
              /\ events' = Publish(events, "UserMsg", u, 0)
              /\ UNCHANGED <<hpc, sent>>
     ELSE /\ out' = Encode(out, u, Msg("401", SrvName, <<target>>, NoName))
          /\ hpc' = [hpc EXCEPT ![u] = IF up[u] THEN "loop" ELSE "quit"]
          /\ UNCHANGED <<events, sent>>
  /\ UNCHANGED <<userVars, users, chanVars, connVars, hsVars, hch, hsnap, hold,
                 panicked>>
  /\ RegFree
  /\ UNCHANGED extVars
  /\ ltrace' = TracedNew(u, PrivmsgTrace(u, target))

\* ------------------------------------------------------------ server.Quit
\* The deferred Quit: `go u.Close()`, and the user's registry entry deleted.
Quit(u) ==
  /\ ~panicked /\ hpc[u] = "quit"
  /\ closers' = [closers EXCEPT ![u] = @ + 1]
  /\ users' = MapDel(users, ID(Nick[u]))
  /\ hpc' = [hpc EXCEPT ![u] = "exit"]
  /\ UNCHANGED <<userVars, chanVars, up, closeCount, drops, rec, out, events,
                 hsVars, hch, hsnap, hold, cmdsLeft, sent, panicked>>
  /\ RegFree
  /\ UNCHANGED extVars
  /\ ltrace' = TracedNew(u, <<"s.Lock", "s.Unlock">>)

\* ------------------------------------------------------------ client inputs
In(cmd, p) == [cmd |-> cmd, p |-> p]
UserRoot == <<"r">>
TextHello == <<"m","1">>
TextSup == <<"m","2">>

\* The clients of the core specification register as the tests' clients do:
\* NICK with a nick of their own, then USER.
OwnNick(u) == IF u = 1 THEN NickFoo ELSE IF u = 2 THEN NickBaz ELSE <<"q">>
CoreHsInputs(u) == IF Nick[u] = NoName THEN {In("NICK", <<OwnNick(u)>>)}
                   ELSE {In("USER", <<UserRoot>>)}
CoreNicks == {NickFoo, NickFooUp, NickBaz}
CoreChans == {ChanChat}
KeepChoices == {FALSE, TRUE}

\* ------------------------------------------------------------ the core specification
\* Registration, rename, quit, join, part, close and a dropped connection.
Init == InitConns(CoreConns, MaxCmds, {})

Next ==
  \/ \E u \in Users : \E m \in CoreHsInputs(u) : HandshakeMsg(u, m)
  \/ \E u \in Users : HandshakeDecodeErr(u)
  \/ \E u \in Users : Welcome(u)
  \/ \E u \in Users : ConnectPublish(u)
  \/ \E u \in Users : ClientDrop(u)
  \/ \E u \in Users : CloseRun(u)
  \/ \E u \in Users : HandleDecodeErr(u)
  \/ \E u \in Users : HandleQuit(u, NoName)
  \/ \E u \in Users : \E n \in CoreNicks : HandleNick(u, n)
  \/ \E u \in Users : NickBroadcast(u)
  \/ \E u \in Users : \E n \in CoreChans : \E k \in KeepChoices : HandleJoin(u, n, k)
  \/ \E u \in Users : JoinInsert(u)
  \/ \E u \in Users : JoinBroadcast(u)
  \/ \E u \in Users : JoinReply(u)
  \/ \E u \in Users : \E n \in CoreChans : HandlePart(u, n)
  \/ \E u \in Users : ChannelPart(u)
  \/ \E c \in ChanObjs : ChannelClose(c)
  \/ \E u \in Users : Quit(u)

Spec == Init /\ [][Next]_vars

\* ------------------------------------------------------------ shared notions
\* HasUser / HasChannel.
HasUser(nick) == MapHas(users, ID(nick))
HasChannel(name) == MapHas(channels, ID(name))
\* The channel object c is the one the index holds under its ID.
Linked(c) == chName[c] # NoName /\ HasChannel(chName[c]) /\ channels[ID(chName[c])] = c
\* u went through add and its deferred Quit has not run.
Added(u) == (cpc[u] \in {"welcome", "publish", "done"} \/ connRet[u] = "errEncode")
            /\ hpc[u] # "exit"
\* No channel operation of u's dispatcher is in flight.
AtRest(u) == hpc[u] \in {"loop", "exit"}

\* ------------------------------------------------------------ claims
\* C1: every user stored in the registry is stored under the ID of its current
\* nick, and every user that was added and has not quit is the one stored at its
\* ID (so no two of them share an ID), whatever the interleaving of add,
\* RenameUser and Quit.
C1_RegistryKeyedByNick ==
  /\ \A id \in DOMAIN users : ID(Nick[users[id]]) = id
  /\ \A u \in Users : Added(u) => HasUser(Nick[u]) /\ users[ID(Nick[u])] = u

\* C1 witness: a user registered, renamed itself (also across case), and the
\* other user is registered too.
C1_Witness ==
  \E u, v \in Users :
    /\ u # v /\ Added(u) /\ Added(v)
    /\ hpc[u] = "loop" /\ Nick[u] # OwnNick(u)
    /\ hpc[v] = "loop"

\* C2 (as claimed): with no Join/Part/Close/Quit of the user in flight, u is a
\* member of c exactly when c is in u's channel set.
C2_MembershipCoherent ==
  \A u \in Users : \A c \in ChanObjs :
    AtRest(u) => (u \in usersIdx[c] <=> c \in uchannels[u])

\* C3 (as claimed, in the form a finite run refutes): once the deferred Quit of
\* a user has returned (after QUIT or after a failed Decode), the user is in no
\* registry entry and in no channel's member set.
C3_QuitLeavesNothing ==
  \A u \in Users :
    hpc[u] = "exit" =>
      /\ \A id \in DOMAIN users : users[id] # u
      /\ \A c \in ChanObjs : u \notin usersIdx[c]

\* C4: when a Part takes the last member out of a channel whose keepEmpty is
\* false, the channel object is no longer in the server's index when Part
\* returns (HasChannel misses it unless the name was created anew).
C4_PartStep(c) ==
  /\ usersIdx[c] # {} /\ usersIdx'[c] = {} /\ closes' = closes /\ ~chKeep[c]
NextText(u) == Len(sent[u]) + 1

ChatKinds == {"PRIVMSG", "JOIN", "331", "332", "353", "366"}
InitChat == InitConns(ChatConns, ChatCmds, ChatKinds)

NextChat ==
  \/ \E u \in Users : \E m \in CoreHsInputs(u) : HandshakeMsg(u, m)
  \/ \E u \in Users : Welcome(u)
  \/ \E u \in Users : ConnectPublish(u)
  \/ \E u \in Users : \E n \in CoreChans : HandleJoin(u, n, FALSE)
  \/ \E u \in Users : JoinInsert(u)
  \/ \E u \in Users : JoinBroadcast(u)
  \/ \E u \in Users : JoinReply(u)
  \/ \E u \in Users : \E n \in CoreChans : HandlePrivmsg(u, n, NextText(u))
  \/ \E u \in Users : \E n \in CoreChans : HandlePart(u, n)
  \/ \E u \in Users : ChannelPart(u)

SpecChat == InitChat /\ [][NextChat]_vars

\* The channel PRIVMSGs of sender u to the channel named n, as v received them.
PrivFrom(v, u, n) ==
  SelectSeq(out[v], LAMBDA m : m.cmd = "PRIVMSG" /\ m.src = u /\ m.p = <<n>>)

\* C5: two PRIVMSGs one user sent to one channel reach every member that
\* receives both in the order they were sent (the n-th one carries text n).
C5_SenderOrderKept ==
  \A v \in Users : \A u \in Users : \A n \in CoreChans :
    \A i \in 1..Len(PrivFrom(v, u, n)) : \A j \in 1..Len(PrivFrom(v, u, n)) :
      i < j => PrivFrom(v, u, n)[i].t < PrivFrom(v, u, n)[j].t

\* A member has received two PRIVMSGs of one sender to one channel.
C5_Witness ==
  \E v \in Users : \E u \in Users : \E n \in CoreChans :
    v # u /\ Len(PrivFrom(v, u, n)) >= 2

\* What u received for its joins: its own JOINs and the numeric replies.
JoinStream(u) ==
  SelectSeq(out[u], LAMBDA m : \/ m.cmd = "JOIN" /\ m.pfx = Nick[u]
                               \/ m.cmd \in {"331", "332", "353", "366"})

\* C10: a joining user receives its own JOIN, then RPL_NAMREPLY (353), then
\* RPL_ENDOFNAMES (366), then RPL_NOTOPIC (331) or RPL_TOPIC (332).
C10_JoinRepliesOrder ==
  \A u \in Users : \A i \in 1..Len(JoinStream(u)) :
    JoinStream(u)[i].cmd = "JOIN" =>
      /\ i + 1 <= Len(JoinStream(u)) => JoinStream(u)[i + 1].cmd = "353"
      /\ i + 2 <= Len(JoinStream(u)) => JoinStream(u)[i + 2].cmd = "366"
      /\ i + 3 <= Len(JoinStream(u)) =>
           JoinStream(u)[i + 3].cmd \in {"331", "332"}

\* ------------------------------------------------------------ the handshake specification
\* The first client registers as the tests' clients do; the second sends any of
\* these messages while it registers: NICK with either of two nicks or without
\* params, USER, and a command the handshake ignores.  Registered, they rename,
\* send private messages and quit; connections break.
\* The handshake replies, the welcome, private messages and Connect events are
\* observed.
HsInputs == {In("NICK", <<NickFoo>>), In("NICK", <<NickBaz>>), In("NICK", <<>>),
             In("USER", <<UserRoot>>), In("PING", <<SrvName>>)}
HsInputsOf(u) == IF u = 1 THEN CoreHsInputs(u) ELSE HsInputs
HsNicks == {NickFoo, NickBaz}
HsKinds == {"001", "461", "433", "PRIVMSG", "Connect"}

InitHS == InitConns(HsConns, HsCmds, HsKinds)

NextHS ==
  \/ \E u \in Users : \E m \in HsInputsOf(u) : HandshakeMsg(u, m)
  \/ \E u \in Users : HandshakeDecodeErr(u)
  \/ \E u \in Users : Welcome(u)
  \/ \E u \in Users : ConnectPublish(u)
  \/ \E u \in Users : ClientDrop(u)
  \/ \E u \in Users : CloseRun(u)
  \/ \E u \in Users : HandleDecodeErr(u)
  \/ \E u \in Users : HandleQuit(u, NoName)
  \/ \E u \in Users : \E n \in HsNicks : HandleNick(u, n)
  \/ \E u \in Users : NickBroadcast(u)
  \/ \E u \in Users : \E n \in HsNicks : HandlePrivmsg(u, n, TextHello)
  \/ \E u \in Users : Quit(u)

SpecHS == InitHS /\ [][NextHS]_vars

\* ------------------------------------------------------------ handshake claims
Count001(u) == Len(SelectSeq(out[u], LAMBDA m : m.cmd = "001"))
ConnectEvents(u) ==
  Len(SelectSeq(events, LAMBDA e : e.kind = "Connect" /\ e.user = u))
Has433(u) == \E i \in 1..Len(out[u]) : out[u][i].cmd = "433"

\* This step is an iteration of u's handshake loop on a decoded message; the
\* iteration answered with the numeric cmd; the message had params and left
\* both nick and user set.
HsStep(u) == cpc[u] = "hs" /\ hsRead'[u] = hsRead[u] + 1
Replied(u, cmd) ==
  /\ Len(out'[u]) = Len(out[u]) + 1
  /\ out'[u][Len(out'[u])].cmd = cmd
HsComplete(u) ==
  HsStep(u) /\ ~Replied(u, "461") /\ Nick'[u] # NoName /\ UserName'[u] # NoName

C6_State ==
  \A u \in Users :
    /\ cpc[u] = "welcome" => HasUser(Nick[u]) /\ users[ID(Nick[u])] = u
    /\ cpc[u] = "publish" => Count001(u) = 1
    /\ connRet[u] = "nil" <=> cpc[u] = "done"
    /\ ConnectEvents(u) = (IF cpc[u] = "done" THEN 1 ELSE 0)
    /\ cpc[u] = "done" => Count001(u) = 1
C6_Step ==
  \A u \in Users :
    /\ HsComplete(u) /\ ~MapHas(users, ID(Nick'[u]))
         => cpc'[u] = "welcome" /\ users' = MapPut(users, ID(Nick'[u]), u)
    /\ cpc[u] = "welcome" /\ up[u] /\ cpc'[u] # cpc[u]
         => /\ cpc'[u] = "publish"
            /\ out'[u] = Append(out[u], Msg("001", SrvName, <<Nick[u]>>, NoName))
            /\ users[ID(Nick[u])] = u
    /\ cpc[u] = "publish" /\ cpc'[u] # cpc[u] => cpc'[u] = "done"

\* C6: a client whose NICK n and USER x are complete while ID(n) is free is
\* stored in the registry under ID(n), is sent one RPL_WELCOME whose first
\* param is n, gets exactly one Connect event, and Connect returns nil.
C6_WelcomeOnFreeNick == []C6_State /\ [][C6_Step]_vars

\* Connect has returned nil for a client that has not yet sent a command.
C6_Witness ==
  \E u \in Users : connRet[u] = "nil" /\ hpc[u] = "loop" /\ cmdsLeft[u] = HsCmds
                   /\ HasUser(Nick[u]) /\ users[ID(Nick[u])] = u

C7_Step ==
  \A u \in Users :
    /\ HsComplete(u) /\ MapHas(users, ID(Nick'[u]))
         => /\ out'[u] = Append(out[u], Msg("433", SrvName, <<Nick'[u]>>, NoName))
            /\ users' = users
            /\ hsLeft'[u] > 0 => cpc'[u] = "hs"
    /\ HsComplete(u) /\ Has433(u) /\ ~MapHas(users, ID(Nick'[u]))
         => cpc'[u] = "welcome" /\ users' = MapPut(users, ID(Nick'[u]), u)

\* C7: a handshake message that leaves nick and user set while ID(nick) is
\* taken is answered with ERR_NICKNAMEINUSE carrying the nick, leaves the
\* registry as it was and the handshake reading; a later message that makes
\* the nick a free one registers the client under it.
C7_CollisionThenRetry == [][C7_Step]_vars

\* A client was refused one nick and has registered under another.
C7_Witness ==
  \E u \in Users : \E i \in 1..Len(out[u]) :
    /\ out[u][i].cmd = "433" /\ out[u][i].p # <<Nick[u]>>
    /\ cpc[u] = "done" /\ cmdsLeft[u] = HsCmds
    /\ HasUser(Nick[u]) /\ users[ID(Nick[u])] = u

\* C8: the handshake decodes at most handshakeMsgTolerance messages and each
\* one not registering the user spends one unit of that budget; when it is
\* spent Connect returns ErrHandshakeFailed with the transport closed, no
\* dispatcher, no event for the user and no registry entry for it.
C8_BudgetThenFailure ==
  \A u \in Users :
    /\ hsRead[u] <= handshakeMsgTolerance
    /\ cpc[u] = "hs" => hsLeft[u] >= 1
    /\ cpc[u] \in {"hs", "failed"} /\ connRet[u] # "errEncode"
         => hsRead[u] + hsLeft[u] = handshakeMsgTolerance
    /\ connRet[u] = "ErrHandshakeFailed" <=> hsLeft[u] = 0
    /\ connRet[u] = "ErrHandshakeFailed"
         => /\ ~up[u] /\ closeCount[u] = 1
            /\ hpc[u] = "none"
            /\ ConnectEvents(u) = 0
            /\ \A id \in DOMAIN users : users[id] # u

\* A handshake failed after a message without params and a nick collision.
C8_Witness ==
  \E u \in Users :
    /\ connRet[u] = "ErrHandshakeFailed"
    /\ Has433(u)
    /\ \E i \in 1..Len(out[u]) : out[u][i].cmd = "461"

\* C9: RPL_WELCOME is the first message ever written to a user.
C9_WelcomeFirst ==
  \A u \in Users : out[u] # <<>> => out[u][1].cmd = "001"

\* A registered user's PRIVMSG was written to a user that is in the registry
\* and has not been sent its welcome yet.
C9_Witness ==
  \E u \in Users :
    /\ cpc[u] = "welcome" /\ out[u] # <<>>
    /\ out[u][Len(out[u])].cmd = "PRIVMSG"

\* ------------------------------------------------------------ the membership specification
\* Registered clients join and part one channel, named in either case; the
\* JOIN and PART messages, ERR_NOTONCHANNEL and the NewChannel and Join events
\* are observed.
MemberChans == {ChanChat, ChanChatUp}
MemberKinds == {"JOIN", "PART", "442", "NewChannel", "Join"}

InitMember == InitConns(MemberConns, MemberCmds, MemberKinds)

NextMember ==
  \/ \E u \in Users : \E m \in CoreHsInputs(u) : HandshakeMsg(u, m)
  \/ \E u \in Users : Welcome(u)
  \/ \E u \in Users : ConnectPublish(u)
  \/ \E u \in Users : \E n \in MemberChans : HandleJoin(u, n, FALSE)
  \/ \E u \in Users : JoinInsert(u)
  \/ \E u \in Users : JoinBroadcast(u)
  \/ \E u \in Users : JoinReply(u)
  \/ \E u \in Users : \E n \in CoreChans : HandlePart(u, n)
  \/ \E u \in Users : ChannelPart(u)

SpecMember == InitMember /\ [][NextMember]_vars

\* C11: the JOIN of a joining user is written to exactly the users that were
\* members when it was inserted (itself included): to each of them, and to
\* nobody who joined afterwards.
C11_JoinSeenBySnapshot ==
  [][\A u \in Users : JoinBroadcast(u) =>
       \A v \in Users : up[v] => (out'[v] # out[v] <=> v \in hsnap[u])]_vars

\* The Join events published for u and channel object c, and the JOIN messages
\* with u's prefix written to u.
JoinEvents(u, c) ==
  Len(SelectSeq(events, LAMBDA e : e.kind = "Join" /\ e.user = u /\ e.chan = c))
OwnJoins(u) ==
  Len(SelectSeq(out[u], LAMBDA m : m.cmd = "JOIN" /\ m.pfx = Nick[u]))

\* C12: Join of a user that is already a member returns nil at once: no
\* message is written to anybody, and the channel's member set and the user's
\* channel set stay as they were.
C12_RejoinNoEffect ==
  [][\A u \in Users : JoinInsert(u) /\ u \in usersIdx[hch[u]] =>
       /\ out' = out
       /\ usersIdx' = usersIdx /\ uchannels' = uchannels
       /\ hpc'[u] = "loop"]_vars

\* A user joined the channel it was in: two Join events, one JOIN message.
C12_Witness ==
  \E u \in Users : \E c \in ChanObjs :
    /\ JoinEvents(u, c) = 2 /\ OwnJoins(u) = 1
    /\ hpc[u] = "loop" /\ u \in usersIdx[c]

\* C13: Part of a user that is not a member writes ERR_NOTONCHANNEL to that
\* user and nothing to anybody else, and leaves the member set and the
\* server's channel index as they were.
C13_PartOfNonMember ==
  [][\A u \in Users : ChannelPart(u) /\ u \notin usersIdx[hch[u]] =>
       /\ out'[u] = Append(out[u], Msg("442", SrvName, <<chName[hch[u]]>>, NoName))
       /\ \A v \in Users \ {u} : out'[v] = out[v]
       /\ usersIdx' = usersIdx /\ channels' = channels]_vars

\* A non-member's PART was answered with ERR_NOTONCHANNEL.
C13_Witness ==
  \E u \in Users :
    /\ out[u] # <<>> /\ out[u][Len(out[u])].cmd = "442"
    /\ hpc[u] = "loop" /\ ~panicked

\* C14: when a member parts, each user that is a member at that moment, the
\* parting one included, is written one PART with the parting user's prefix
\* and the channel name, nobody else is written anything, and afterwards the
\* parting user is out of the member set while the others remain.
C14_PartSeenByMembers ==
  [][\A u \in Users : ChannelPart(u) /\ u \in usersIdx[hch[u]] =>
       LET c == hch[u]
           m == Msg("PART", Nick[u], <<chName[c]>>, NoName)
       IN  /\ \A v \in Users :
                out'[v] = IF v \in usersIdx[c] /\ up[v] THEN Append(out[v], m)
                          ELSE out[v]
           /\ usersIdx'[c] = usersIdx[c] \ {u}
           /\ \A d \in ChanObjs \ {c} : usersIdx'[d] = usersIdx[d]]_vars

\* One of two members has parted: both were written its PART, the other stays.
C14_Witness ==
  \E u \in Users : \E v \in Users \ {u} : \E c \in ChanObjs :
    /\ u \notin usersIdx[c] /\ v \in usersIdx[c] /\ hpc[u] = "loop"
    /\ out[u] # <<>> /\ out[u][Len(out[u])].cmd = "PART"
    /\ out[u][Len(out[u])].pfx = Nick[u]
    /\ out[v] # <<>> /\ out[v][Len(out[v])] = out[u][Len(out[u])]

\* ------------------------------------------------------------ the conversation specification
\* Registered clients join a channel, rename (to the first client's nick in
\* another case, to a nick that is the channel's name) and send PRIVMSG to the
\* channel's name and to the second client's nick in another case; the PRIVMSG and NICK messages, the error replies
\* and the message events are observed.
NickBazUp == <<"B">>
TalkNicks == {NickFooUp, ChanChatUp}
TalkTargets == {ChanChat, NickBazUp}
TalkKinds == {"PRIVMSG", "NICK", "433", "401", "ChanMsg", "UserMsg"}

InitTalk == InitConns(TalkConns, TalkCmds, TalkKinds)

NextTalk ==
  \/ \E u \in Users : \E m \in CoreHsInputs(u) : HandshakeMsg(u, m)
  \/ \E u \in Users : Welcome(u)
  \/ \E u \in Users : ConnectPublish(u)
  \/ \E u \in Users : \E n \in CoreChans : HandleJoin(u, n, FALSE)
  \/ \E u \in Users : JoinInsert(u)
  \/ \E u \in Users : JoinBroadcast(u)
  \/ \E u \in Users : JoinReply(u)
  \/ \E u \in Users : \E n \in TalkNicks : HandleNick(u, n)
  \/ \E u \in Users : NickBroadcast(u)
  \/ \E u \in Users : \E n \in TalkTargets : HandlePrivmsg(u, n, TextHello)

SpecTalk == InitTalk /\ [][NextTalk]_vars

\* C15: a PRIVMSG to an existing channel is written once to each member of
\* the channel other than the sender and to nobody else, the sender never
\* (also when the sender or a recipient has changed its nick).
C15_ChannelMsgToOthers ==
  [][\A u \in Users : \A n \in TalkTargets :
       HandlePrivmsg(u, n, TextHello) /\ MapHas(channels, ID(n)) =>
         LET c == channels[ID(n)]
             m == [Msg("PRIVMSG", Nick[u], <<chName[c]>>, TextHello)
                     EXCEPT !.src = u]
         IN  \A v \in Users :
               out'[v] = IF v \in usersIdx[c] \ {u} /\ up[v]
                         THEN Append(out[v], m) ELSE out[v]]_vars

\* A member that has changed its nick has sent a PRIVMSG to its channel: the
\* other member was written it, under the new prefix, and the sender was not.
C15_Witness ==
  \E u \in Users : \E v \in Users \ {u} : \E c \in ChanObjs :
    /\ u \in usersIdx[c] /\ v \in usersIdx[c] /\ Nick[u] # OwnNick(u)
    /\ out[v] # <<>> /\ out[v][Len(out[v])].cmd = "PRIVMSG"
    /\ out[v][Len(out[v])].src = u /\ out[v][Len(out[v])].pfx = Nick[u]
    /\ \A i \in 1..Len(out[u]) : out[u][i].src # u

\* C16: a PRIVMSG whose target is the ID of a channel and of a registered user
\* goes to the channel only: one ChanMsg event and no UserMsg event, and what
\* is written is the channel's message to its members, never a message to the
\* user of that ID as such.
C16_ChannelBeforeUser ==
  [][\A u \in Users : \A n \in TalkTargets :
       /\ HandlePrivmsg(u, n, TextHello)
       /\ MapHas(channels, ID(n)) /\ MapHas(users, ID(n))
       => LET c == channels[ID(n)]
          IN  /\ events' = Append(events, [kind |-> "ChanMsg", user |-> u,
                                           chan |-> c])
              /\ \A v \in Users :
                   out'[v] # out[v] =>
                     /\ v \in usersIdx[c] \ {u}
                     /\ out'[v][Len(out'[v])].p = <<chName[c]>>]_vars

\* A user whose nick is the channel's name (in another case) has sent a
\* PRIVMSG to that name: the channel's member was written it, and there is
\* neither a UserMsg event nor a PRIVMSG to the user itself.
C16_Witness ==
  \E w \in Users : \E v \in Users \ {w} : \E c \in ChanObjs :
    /\ Linked(c) /\ HasUser(chName[c]) /\ users[ID(chName[c])] = w
    /\ v \in usersIdx[c] /\ w \notin usersIdx[c]
    /\ out[v] # <<>> /\ out[v][Len(out[v])].cmd = "PRIVMSG"
    /\ out[v][Len(out[v])].src = w /\ out[v][Len(out[v])].pfx = Nick[w]
    /\ \A i \in 1..Len(events) : events[i].kind # "UserMsg"
    /\ \A i \in 1..Len(out[w]) : out[w][i].cmd # "PRIVMSG"

\* C17: a PRIVMSG whose target is no channel but the ID of a registered user
\* is written once to that user, with the sender's prefix, the recipient's
\* current nick as the only param and the trailing as sent, and to nobody
\* else; one UserMsg event is published.
C17_UserMsgToRecipient ==
  [][\A u \in Users : \A n \in TalkTargets :
       /\ HandlePrivmsg(u, n, TextHello)
       /\ ~MapHas(channels, ID(n)) /\ MapHas(users, ID(n))
       => LET r == users[ID(n)]
          IN  /\ up[r] => out'[r] = Append(out[r], Msg("PRIVMSG", Nick[u],
                                                       <<Nick[r]>>, TextHello))
              /\ \A v \in Users \ {r} : out'[v] = out[v]
              /\ events' = Append(events, [kind |-> "UserMsg", user |-> u,
                                           chan |-> 0])]_vars

\* A user was written a PRIVMSG that was addressed to its nick in another
\* case: the param is its nick, and the sender's stream has no PRIVMSG.
C17_Witness ==
  \E s \in Users : \E r \in Users \ {s} :
    /\ out[r] # <<>> /\ out[r][Len(out[r])].cmd = "PRIVMSG"
    /\ out[r][Len(out[r])].src = 0
    /\ out[r][Len(out[r])].pfx = Nick[s]
    /\ out[r][Len(out[r])].p = <<Nick[r]>>
    /\ \A n \in TalkTargets : Nick[r] # n
    /\ \A i \in 1..Len(out[s]) : out[s][i].cmd # "PRIVMSG"

\* The users other than u that are members of a channel u is a member of.
Sharing(u) ==
  {v \in Users \ {u} : \E c \in ChanObjs : u \in usersIdx[c] /\ v \in usersIdx[c]}

\* C18: a successful rename of u from old to new leaves no registry entry under
\* ID(old) and u under ID(new), and one NICK message with the old nick as
\* prefix and [new] as params is written to u and to every user that shares a
\* channel with u.
C18_RenameAnnounced ==
  [][\A u \in Users :
       /\ \A n \in TalkNicks :
            HandleNick(u, n) /\ ~MapHas(users, ID(n)) =>
              /\ ~MapHas(users', ID(Nick[u]))
              /\ MapHas(users', ID(n)) /\ users'[ID(n)] = u
              /\ Nick'[u] = n /\ hold'[u] = Nick[u]
              /\ hpc'[u] = "nick_bcast"
       /\ NickBroadcast(u) =>
            \A v \in {u} \cup Sharing(u) :
              up[v] => out'[v] = Append(out[v], Msg("NICK", hold[u], <<Nick[u]>>,
                                                    NoName))]_vars

\* A member has renamed: it and the other member were written the NICK message
\* with the old prefix; the old nick misses and the new one finds the user.
C18_Witness ==
  \E u \in Users : \E v \in Sharing(u) :
    /\ Nick[u] # OwnNick(u) /\ hpc[u] = "loop"
    /\ ~HasUser(OwnNick(u)) /\ HasUser(Nick[u]) /\ users[ID(Nick[u])] = u
    /\ out[u] # <<>> /\ out[v] # <<>>
    /\ out[u][Len(out[u])] = Msg("NICK", OwnNick(u), <<Nick[u]>>, NoName)
    /\ out[v][Len(out[v])] = out[u][Len(out[u])]

\* C19: a rename to a nick whose ID is registered, be it by another user or by
\* the renaming user itself (a change of case only), writes ERR_NICKNAMEINUSE
\* carrying the nick to that user and nothing to anybody else, starts no NICK
\* broadcast and leaves the registry and the user's nick as they were.
C19_RenameRefused ==
  [][\A u \in Users : \A n \in TalkNicks :
       HandleNick(u, n) /\ MapHas(users, ID(n)) =>
         /\ out'[u] = Append(out[u], Msg("433", SrvName, <<n>>, NoName))
         /\ \A v \in Users \ {u} : out'[v] = out[v]
         /\ users' = users /\ Nick' = Nick
         /\ hpc'[u] = "loop"]_vars

\* A user was refused its own nick in another case, and another user was
\* refused a nick that is taken; both keep their nicks and registry entries.
C19_Witness ==
  \E u \in Users : \E v \in Users \ {u} :
    /\ Nick[u] = OwnNick(u) /\ Nick[v] = OwnNick(v)
    /\ HasUser(Nick[u]) /\ users[ID(Nick[u])] = u
    /\ HasUser(Nick[v]) /\ users[ID(Nick[v])] = v
    /\ out[u] # <<>> /\ out[v] # <<>>
    /\ out[u][Len(out[u])].cmd = "433" /\ out[u][Len(out[u])].p # <<Nick[u]>>
    /\ ID(out[u][Len(out[u])].p[1]) = ID(Nick[u])
    /\ out[v][Len(out[v])].cmd = "433"
    /\ ID(out[v][Len(out[v])].p[1]) = ID(Nick[u])

\* The NewChannel events published for channel object c.
NewChanEvents(c) ==
  Len(SelectSeq(events, LAMBDA e : e.kind = "NewChannel" /\ e.chan = c))

C20_State ==
  /\ \A id \in DOMAIN channels : ID(chName[channels[id]]) = id
  /\ \A c \in ChanObjs : NewChanEvents(c) = (IF chName[c] = NoName THEN 0 ELSE 1)
C20_Step ==
  \A u \in Users : \A n \in MemberChans :
    HandleJoin(u, n, FALSE) =>
      IF MapHas(channels, ID(n))
      THEN /\ hch'[u] = channels[ID(n)]
           /\ channels' = channels /\ chName' = chName /\ events' = events
      ELSE /\ chName[hch'[u]] = NoName /\ chName'[hch'[u]] = n
           /\ \A d \in ChanObjs \ {hch'[u]} : chName'[d] = chName[d]
           /\ channels' = MapPut(channels, ID(n), hch'[u])
           /\ events' = Append(events, [kind |-> "NewChannel", user |-> 0,
                                        chan |-> hch'[u]])

\* C20: Server.Channel gets or creates in one step: a call whose name has the
\* ID of a stored channel returns that channel and creates and publishes
\* nothing; otherwise it creates one channel, stores it under the ID and
\* publishes one NewChannel event for it.
C20_ChannelGetOrCreate == []C20_State /\ [][C20_Step]_vars

\* Two dispatchers hold the same channel, created under the upper-case name,
\* between Server.Channel and Channel.Join; one NewChannel event was published.
C20_Witness ==
  \E u \in Users : \E v \in Users \ {u} :
    /\ hpc[u] = "join" /\ hpc[v] = "join" /\ hch[u] = hch[v]
    /\ chName[hch[u]] = ChanChatUp /\ HasChannel(ChanChat)
    /\ Len(events) = 1 /\ events[1].kind = "NewChannel"

\* ------------------------------------------------------------ the unlink specification
\* The embedding program calls Server.UnlinkChannel with a channel it holds.
ServerUnlink(c) ==
  /\ ~panicked /\ chName[c] # NoName /\ unlinks < MaxUnlinks /\ RegFree
  /\ unlinks' = unlinks + 1
  /\ channels' = UnlinkChannel(c)
  /\ ltrace' = TracedNew(Embedder, <<"s.Lock", "s.Unlock">>)
  /\ UNCHANGED <<userVars, users, chName, chServer, chKeep, usersIdx, closes,
                 connVars, out, events, hsVars, dispVars, panicked, smu, spc,
                 channelEvents, rpc, rch, sends, hbatch, encIn, inviteOnly, encRes>>

\* Registered clients join and part one channel while the embedding program
\* unlinks channel objects, so that a name is created anew while the old
\* object is still in use.
InitUnlink == InitConns(UnlinkConns, UnlinkCmds, {})

NextUnlink ==
  \/ \E u \in Users : \E m \in CoreHsInputs(u) : HandshakeMsg(u, m)
  \/ \E u \in Users : Welcome(u)
  \/ \E u \in Users : ConnectPublish(u)
  \/ \E u \in Users : \E n \in MemberChans : HandleJoin(u, n, FALSE)
  \/ \E u \in Users : JoinInsert(u)
  \/ \E u \in Users : JoinBroadcast(u)
  \/ \E u \in Users : JoinReply(u)
  \/ \E u \in Users : \E n \in CoreChans : HandlePart(u, n)
  \/ \E u \in Users : ChannelPart(u)
  \/ \E c \in ChanObjs : ServerUnlink(c)

SpecUnlink == InitUnlink /\ [][NextUnlink]_vars

\* The index after UnlinkChannel(c), as claimed.
C21_Index(c) == IF Linked(c) THEN MapDel(channels, ID(chName[c])) ELSE channels

\* C21: UnlinkChannel(c), called by the embedding program or by the Part that
\* empties c, removes the index entry at c's ID only when the channel stored
\* there is c itself (a channel created anew under the name stays); and it
\* changes no member set (Part changes that of c only, by the parting user).
C21_UnlinkOnlyItself ==
  [][/\ \A c \in ChanObjs :
          ServerUnlink(c) => channels' = C21_Index(c) /\ usersIdx' = usersIdx
     /\ \A u \in Users :
          ChannelPart(u) /\ PartUnlinks(u) =>
            /\ channels' = C21_Index(hch[u])
            /\ \A d \in ChanObjs \ {hch[u]} : usersIdx'[d] = usersIdx[d]]_vars

\* A channel object was unlinked by the embedding program while it had a
\* member and its name was created anew as another object, which is stored;
\* the Part of the old object's last member, which calls UnlinkChannel on the
\* old object, is the dispatcher's next step.
C21_Witness ==
  \E u \in Users : \E d \in ChanObjs \ {hch[u]} :
    /\ hpc[u] = "part" /\ PartUnlinks(u) /\ ~panicked /\ RegFree
    /\ ~Linked(hch[u]) /\ unlinks >= 1
    /\ ID(chName[hch[u]]) = ID(chName[d]) /\ Linked(d) /\ usersIdx[d] # {}

\* ------------------------------------------------------------ User.Encode
\* Encode(msgs...): the messages are written one by one with Conn.Encode; the
\* first write that fails ends the loop and its error is returned (the error
\* of write i is i), nil (0) when every write succeeded.
RECURSIVE UserEncodeSkip(_, _, _, _)
UserEncodeSkip(stream, msgs, fails, i) ==
  IF i > Len(msgs) THEN [stream |-> stream, err |-> 0]
  ELSE IF fails[i]
  THEN [UserEncodeSkip(stream, msgs, fails, i + 1) EXCEPT !.err = i]
  ELSE UserEncodeSkip(Deliver(stream, msgs[i]), msgs, fails, i + 1)
RECURSIVE UserEncode(_, _, _, _)
UserEncode(stream, msgs, fails, i) ==
  IF i > Len(msgs) THEN [stream |-> stream, err |-> 0]
  ELSE IF fails[i] THEN [stream |-> stream, err |-> i]
  ELSE UserEncode(Deliver(stream, msgs[i]), msgs, fails, i + 1)

\* ------------------------------------------------------------ the encode specification
\* One call of User.Encode on a transport that holds the welcome: any batch of
\* up to MaxBatch of these messages, and any outcome of each write.
EncMsgs == {Msg("331", SrvName, <<ChanChat>>, NoName),
            Msg("353", SrvName, <<NickFoo, <<"=">>, ChanChat>>, <<NickFoo>>),
            Msg("366", SrvName, <<NickFoo>>, NoName)}
EncPrior == <<Msg("001", SrvName, <<NickFoo>>, NoName)>>
EncInputs ==
  UNION {{[msgs |-> ms, fails |-> fs] : ms \in [1..n -> EncMsgs],
                                        fs \in [1..n -> BOOLEAN]} : n \in 0..MaxBatch}

InitEncode == InitBase(0, 0, {}) /\ encIn \in EncInputs /\ inviteOnly = FALSE

EncodeCall ==
  /\ encRes = NoResult
  /\ encRes' = UserEncode(EncPrior, encIn.msgs, encIn.fails, 1)
  /\ UNCHANGED <<userVars, users, chanVars, connVars, out, events, hsVars,
                 dispVars, panicked, smu, spc, channelEvents, rpc, rch, sends,
                 unlinks, hbatch, ltrace, encIn, inviteOnly>>

NextEncode == EncodeCall

SpecEncode == InitEncode /\ [][NextEncode]_vars

\* C22: User.Encode(m1..mn) writes the messages in argument order after what
\* the transport already holds; if the write of mi fails, the error of that
\* write is returned and none of m(i+1)..mn is written; if no write fails, all
\* n are written and nil is returned.
C22_BatchStopsAtFirstError ==
  encRes # NoResult =>
    \E k \in 0..Len(encIn.msgs) :
      /\ encRes.stream = EncPrior \o SubSeq(encIn.msgs, 1, k)
      /\ \A i \in 1..k : ~encIn.fails[i]
      /\ k < Len(encIn.msgs) => encIn.fails[k + 1] /\ encRes.err = k + 1
      /\ k = Len(encIn.msgs) => encRes.err = 0

\* A batch of three whose second write failed while the third would have
\* succeeded: the first message is written, the error is that of the second.
C22_Witness ==
  /\ encRes # NoResult /\ Len(encIn.msgs) = 3
  /\ encIn.fails = <<FALSE, TRUE, FALSE>>
  /\ encRes.err = 2 /\ encRes.stream = EncPrior \o <<encIn.msgs[1]>>
  /\ encIn.msgs[1] # encIn.msgs[3]

\* ------------------------------------------------------------ channel.Join, write by write
\* Join calls u.Encode with the three replies: the arguments are built first
\* (ch.server.Prefix() is a nil dereference once the channel was unlinked;
\* ch.Names() reads the members under the read lock), then Encode runs.
JoinReplyStart(u) ==
  /\ ~panicked /\ hpc[u] = "join_reply"
  /\ IF ~chServer[hch[u]]
     THEN /\ panicked' = TRUE
          /\ UNCHANGED <<hbatch, hpc>>
     ELSE /\ hbatch' = [hbatch EXCEPT ![u] = JoinReplies(u, hch[u])]
          /\ hpc' = [hpc EXCEPT ![u] = "encode"]
          /\ UNCHANGED panicked
  /\ ltrace' = Traced(u, <<"ch.mu.RLock", "ch.mu.RUnlock">>)
  /\ UNCHANGED <<userVars, users, chanVars, connVars, out, events, hsVars, hch,
                 hsnap, hold, cmdsLeft, sent, smu, spc, channelEvents, rpc, rch,
                 sends, unlinks, encIn, inviteOnly, encRes>>

\* One iteration of the loop of User.Encode in the dispatcher of u: the next
\* message of the batch is written; a failed write ends the batch, Join
\* returns the error and the dispatcher returns; after the last message Join
\* returns nil and the dispatcher publishes Join.
EncodeNext(u) ==
  /\ ~panicked /\ hpc[u] = "encode"
  /\ out' = Encode(out, u, Head(hbatch[u]))
  /\ IF ~up[u]
     THEN /\ hbatch' = [hbatch EXCEPT ![u] = <<>>]
          /\ hpc' = [hpc EXCEPT ![u] = "quit"]
          /\ hch' = [hch EXCEPT ![u] = 0]
          /\ UNCHANGED events
     ELSE /\ hbatch' = [hbatch EXCEPT ![u] = Tail(@)]
          /\ IF Len(hbatch[u]) = 1
             THEN /\ events' = Publish(events, "Join", u, hch[u])
                  /\ hpc' = [hpc EXCEPT ![u] = "loop"]
                  /\ hch' = [hch EXCEPT ![u] = 0]
             ELSE UNCHANGED <<events, hpc, hch>>
  /\ ltrace' = Traced(u, <<"Encode">>)
  /\ UNCHANGED <<userVars, users, chanVars, connVars, hsVars, hsnap, hold,
                 cmdsLeft, sent, panicked, smu, spc, channelEvents, rpc, rch,
                 sends, unlinks, encIn, inviteOnly, encRes>>

\* ------------------------------------------------------------ the batch specification
\* Registered clients join a channel and send PRIVMSG to the channel and to
\* each other while the replies of a join are written one by one; a connection
\* may break.  The replies and the PRIVMSGs are observed.
BatchKinds == {"331", "353", "366"}
BatchTargets == {ChanChat, NickFoo}

InitBatch == InitConns(BatchConns, BatchCmds, BatchKinds \cup {"PRIVMSG"})

NextBatch ==
  \/ \E u \in Users : \E m \in CoreHsInputs(u) : HandshakeMsg(u, m)
  \/ \E u \in Users : Welcome(u)
  \/ \E u \in Users : ConnectPublish(u)
  \/ \E u \in Users : ClientDrop(u)
  \/ \E u \in Users : HandleDecodeErr(u)
  \/ \E u \in Users : \E n \in CoreChans : HandleJoin(u, n, FALSE)
  \/ \E u \in Users : JoinInsert(u)
  \/ \E u \in Users : JoinBroadcast(u)
  \/ \E u \in Users : JoinReplyStart(u)
  \/ \E u \in Users : EncodeNext(u)
  \/ \E u \in Users : \E n \in BatchTargets : HandlePrivmsg(u, n, TextHello)
  \/ \E u \in Users : Quit(u)
  \/ \E u \in Users : CloseRun(u)

SpecBatch == InitBatch /\ [][NextBatch]_vars

\* C23 (as claimed): the messages of one Encode batch are contiguous in the
\* recipient's stream: between two replies of a join (each user joins once)
\* there is no message written by another thread.
C23_BatchContiguous ==
  \A u \in Users : \A i \in 1..Len(out[u]) : \A j \in 1..Len(out[u]) :
    i < j /\ out[u][i].cmd \in BatchKinds /\ out[u][j].cmd \in BatchKinds
      => \A k \in i..j : out[u][k].cmd \in BatchKinds

\* A join whose three replies were written while a peer sent PRIVMSG before
\* or after the batch: the stream holds the whole batch and a PRIVMSG.
C23_Witness ==
  \E u \in Users :
    /\ hpc[u] = "loop" /\ hbatch[u] = <<>>
    /\ \E i \in 1..Len(out[u]) : out[u][i].cmd = "366"
    /\ \E i \in 1..Len(out[u]) : out[u][i].cmd = "PRIVMSG"

\* ------------------------------------------------------------ server.Close
\* Close takes the server's lock, ...
ServerCloseLock ==
  /\ ~panicked /\ spc = "idle" /\ RegFree
  /\ smu' = "Close"
  /\ spc' = "locked"
  /\ ltrace' = TracedNew(Closer, <<"s.Lock">>)
  /\ UNCHANGED <<userVars, users, chanVars, connVars, out, events, hsVars,
                 dispVars, panicked, channelEvents, rpc, rch, sends, unlinks,
                 hbatch, encIn, inviteOnly, encRes>>

\* ... calls Close on every user in s.users, ...
ServerCloseUsers ==
  /\ ~panicked /\ spc = "locked"
  /\ up' = [u \in Users |-> up[u] /\ \A id \in DOMAIN users : users[id] # u]
  /\ closeCount' = [u \in Users |->
                      IF \E id \in DOMAIN users : users[id] = u
                      THEN closeCount[u] + 1 ELSE closeCount[u]]
  /\ spc' = "closed"
  /\ UNCHANGED <<userVars, users, chanVars, closers, drops, rec, out, events,
                 hsVars, dispVars, panicked, smu, channelEvents, rpc, rch, sends,
                 unlinks, hbatch, ltrace, encIn, inviteOnly, encRes>>

\* ... closes the Publisher, unlocks and returns nil.
ServerCloseUnlock ==
  /\ ~panicked /\ spc = "closed"
  /\ smu' = "none"
  /\ spc' = "done"
  /\ ltrace' = Traced(Closer, <<"s.Unlock">>)
  /\ UNCHANGED <<userVars, users, chanVars, connVars, out, events, hsVars,
                 dispVars, panicked, channelEvents, rpc, rch, sends, unlinks,
                 hbatch, encIn, inviteOnly, encRes>>

\* ------------------------------------------------------------ PING, read and write
\* The dispatcher decodes a PING and has the PONG to write; ...
PingDecoded(u, t) ==
  /\ Decoded(u)
  /\ hbatch' = [hbatch EXCEPT ![u] = <<Msg("PONG", SrvName, <<SrvName>>, t)>>]
  /\ hpc' = [hpc EXCEPT ![u] = "pong"]
  /\ ltrace' = TracedNew(u, <<>>)
  /\ UNCHANGED <<userVars, users, chanVars, connVars, out, events, hsVars, hch,
                 hsnap, hold, sent, panicked, smu, spc, channelEvents, rpc, rch,
                 sends, unlinks, encIn, inviteOnly, encRes>>

\* ... it writes it: a failed write ends the dispatcher.
PongEncode(u) ==
  /\ ~panicked /\ hpc[u] = "pong"
  /\ out' = Encode(out, u, Head(hbatch[u]))
  /\ hbatch' = [hbatch EXCEPT ![u] = <<>>]
  /\ hpc' = [hpc EXCEPT ![u] = IF up[u] THEN "loop" ELSE "quit"]
  /\ ltrace' = Traced(u, <<"Encode">>)
  /\ UNCHANGED <<userVars, users, chanVars, connVars, events, hsVars, hch, hsnap,
                 hold, cmdsLeft, sent, panicked, smu, spc, channelEvents, rpc,
                 rch, sends, unlinks, encIn, inviteOnly, encRes>>

\* ------------------------------------------------------------ the close specification
\* Clients register (the second with any handshake input), send PING and
\* QUIT, connections break, and the embedding program closes the server.
InitClose == InitConns(CloseConns, CloseCmds, {})

NextClose ==
  \/ \E u \in Users : \E m \in HsInputsOf(u) : HandshakeMsg(u, m)
  \/ \E u \in Users : HandshakeDecodeErr(u)
  \/ \E u \in Users : Welcome(u)
  \/ \E u \in Users : ConnectPublish(u)
  \/ \E u \in Users : ClientDrop(u)
  \/ \E u \in Users : CloseRun(u)
  \/ \E u \in Users : HandleDecodeErr(u)
  \/ \E u \in Users : HandleQuit(u, NoName)
  \/ \E u \in Users : PingDecoded(u, TextHello)
  \/ \E u \in Users : PongEncode(u)
  \/ \E u \in Users : Quit(u)
  \/ ServerCloseLock
  \/ ServerCloseUsers
  \/ ServerCloseUnlock

SpecClose == InitClose /\ [][NextClose]_vars

\* u is in the registry.
InRegistry(u) == \E id \in DOMAIN users : users[id] = u
\* The life of connection u is over: Connect returned an error, or the
\* dispatcher has returned and the closing goroutine of its Quit has run.
Ended(u) == cpc[u] = "failed" \/ (hpc[u] = "exit" /\ closers[u] = 0)

\* C24 (as claimed): the transport's Close is invoked at most once for every
\* connection, and exactly once when the connection's life is over, whichever
\* path ended it.
C24_ClosedExactlyOnce ==
  \A u \in Users :
    /\ closeCount[u] <= 1
    /\ Ended(u) => closeCount[u] = 1

\* Without Server.Close: connections ended by a failed handshake and by the
\* dispatcher's deferred Quit, each closed once.
C24_Witness ==
  \E u \in Users : \E v \in Users \ {u} :
    /\ spc = "idle"
    /\ connRet[u] = "ErrHandshakeFailed" /\ closeCount[u] = 1
    /\ hpc[v] = "exit" /\ closers[v] = 0 /\ closeCount[v] = 1

\* C25 (as claimed): on a channel object that Part has unlinked (its server
\* reference is cleared), a further Part of a non-member completes normally:
\* it sends ERR_NOTONCHANNEL to that user, changes neither the member sets nor
\* the index, and the dispatcher goes on with its loop.
C25_PartAfterUnlink ==
  [][\A u \in Users :
       ChannelPart(u) /\ ~chServer[hch[u]] /\ u \notin usersIdx[hch[u]] =>
         /\ ~panicked'
         /\ out'[u] = Append(out[u], Msg("442", SrvName, <<chName[hch[u]]>>, NoName))
         /\ usersIdx' = usersIdx /\ channels' = channels
         /\ hpc'[u] = "loop"]_vars

\* A dispatcher holds a channel object that the Part of its last member has
\* unlinked, and its own user is not a member: its Part is the next step.
C25_Witness ==
  \E u \in Users :
    /\ hpc[u] = "part" /\ ~panicked
    /\ ~chServer[hch[u]] /\ u \notin usersIdx[hch[u]]
    /\ ~Linked(hch[u]) /\ usersIdx[hch[u]] = {}

\* ------------------------------------------------------------ the event order specification
\* Two clients register, join, talk and quit; the published events are observed.
OrderKinds == {"Connect", "Join", "ChanMsg", "UserMsg", "Quit"}
OrderTargets == {ChanChat, NickFoo}
InitOrder == InitConns(OrderConns, OrderCmds, OrderKinds)

NextOrder ==
  \/ \E u \in Users : \E m \in CoreHsInputs(u) : HandshakeMsg(u, m)
  \/ \E u \in Users : Welcome(u)
  \/ \E u \in Users : ConnectPublish(u)
  \/ \E u \in Users : HandleQuit(u, NoName)
  \/ \E u \in Users : \E n \in CoreChans : HandleJoin(u, n, FALSE)
  \/ \E u \in Users : JoinInsert(u)
  \/ \E u \in Users : JoinBroadcast(u)
  \/ \E u \in Users : JoinReply(u)
  \/ \E u \in Users : \E n \in OrderTargets : HandlePrivmsg(u, n, TextHello)
  \/ \E u \in Users : Quit(u)
  \/ \E u \in Users : CloseRun(u)

SpecOrder == InitOrder /\ [][NextOrder]_vars

\* The events a dispatcher publishes on behalf of its user.
CausedKinds == {"Join", "ChanMsg", "UserMsg", "Quit"}

\* C27 (as claimed): in the sequence of published events, every Join, ChanMsg,
\* UserMsg and Quit event of a user comes after the Connect event of that user
\* (Connect publishes before the dispatcher is started).
C27_ConnectEventFirst ==
  \A i \in 1..Len(events) :
    events[i].kind \in CausedKinds =>
      \E j \in 1..(i - 1) :
        events[j].kind = "Connect" /\ events[j].user = events[i].user

\* Connect has published the event of a user and that user's dispatcher has
\* published an event of its own.
C27_Witness ==
  \E i, j \in 1..Len(events) :
    /\ events[j].kind = "Connect" /\ events[i].kind \in CausedKinds
    /\ events[i].user = events[j].user

\* ------------------------------------------------------------ server.cleanupEmpty
\* ServerConfig.Server with DiscardEmpty: the cleanupEmpty goroutine starts and
\* waits on s.channelEvents.
CleanupStart ==
  /\ ~panicked /\ rpc = "off"
  /\ rpc' = "recv"
  /\ UNCHANGED <<userVars, users, chanVars, connVars, out, events, hsVars,
                 dispVars, panicked, smu, spc, channelEvents, rch, sends,
                 unlinks, hbatch, ltrace, encIn, inviteOnly, encRes>>

\* The queue of the reaper, made with room for one event.
QueueCap == 1
EventKinds == {"EmptyChannel", "NewChannel"}

\* A channel the server subscribed to the queue sends it an event: EmptyChannel
\* when its members have all left, or an event of another kind. The send waits while
\* the queue is full.
EmitEvent(kind, c) ==
  /\ ~panicked /\ rpc # "off" /\ chName[c] # NoName
  /\ Len(channelEvents) < QueueCap /\ sends < MaxSends
  /\ kind = "EmptyChannel" => (usersIdx[c] = {} /\ \E u \in Users : c \in uchannels[u])
  /\ channelEvents' = Append(channelEvents, [kind |-> kind, chan |-> c])
  /\ sends' = sends + 1
  /\ UNCHANGED <<userVars, users, chanVars, connVars, out, events, hsVars,
                 dispVars, panicked, smu, spc, rpc, rch, unlinks, hbatch,
                 ltrace, encIn, inviteOnly, encRes>>

\* `for evt := range s.channelEvents`: an event of another kind is skipped.
CleanupRecv ==
  /\ ~panicked /\ rpc = "recv" /\ channelEvents # <<>>
  /\ channelEvents' = Tail(channelEvents)
  /\ IF Head(channelEvents).kind # "EmptyChannel"
     THEN UNCHANGED <<rpc, rch>>
     ELSE /\ rch' = Head(channelEvents).chan
          /\ rpc' = "lock"
  /\ UNCHANGED <<userVars, users, chanVars, connVars, out, events, hsVars,
                 dispVars, panicked, smu, spc, sends, unlinks, hbatch, ltrace,
                 encIn, inviteOnly, encRes>>

\* The channel stored under ch.ID() is ch.
StoredIs(c) == MapHas(channels, ID(chName[c])) /\ channels[ID(chName[c])] = c

\* s.Lock, and the comparison of the stored channel with ch: another channel
\* (or none) there, and the reaper unlocks and goes on with the next event.
CleanupLock ==
  /\ ~panicked /\ rpc = "lock" /\ RegFree
  /\ IF StoredIs(rch)
     THEN /\ smu' = "cleanupEmpty"
          /\ rpc' = "len"
          /\ ltrace' = TracedNew(Reaper, <<"s.Lock">>)
          /\ UNCHANGED rch
     ELSE /\ rpc' = "recv"
          /\ rch' = 0
          /\ ltrace' = TracedNew(Reaper, <<"s.Lock", "s.Unlock">>)
          /\ UNCHANGED smu
  /\ UNCHANGED <<userVars, users, chanVars, connVars, out, events, hsVars,
                 dispVars, panicked, spc, channelEvents, sends, unlinks, hbatch,
                 encIn, inviteOnly, encRes>>

\* ch.Len() under the channel's read lock: a channel with members is left alone.
CleanupLen ==
  /\ ~panicked /\ rpc = "len"
  /\ ChanFree(rch)
  /\ IF usersIdx[rch] # {}
     THEN /\ smu' = "none"
          /\ rpc' = "recv"
          /\ rch' = 0
          /\ ltrace' = Traced(Reaper, <<"ch.mu.RLock", "ch.mu.RUnlock", "s.Unlock">>)
     ELSE /\ rpc' = "delete"
          /\ ltrace' = Traced(Reaper, <<"ch.mu.RLock", "ch.mu.RUnlock">>)
          /\ UNCHANGED <<smu, rch>>
  /\ UNCHANGED <<userVars, users, chanVars, connVars, out, events, hsVars,
                 dispVars, panicked, spc, channelEvents, sends, unlinks, hbatch,
                 encIn, inviteOnly, encRes>>

\* delete(s.channels, ch.ID()) and s.Unlock.
CleanupDelete ==
  /\ ~panicked /\ rpc = "delete"
  /\ channels' = MapDel(channels, ID(chName[rch]))
  /\ smu' = "none"
  /\ rpc' = "recv"
  /\ rch' = 0
  /\ ltrace' = Traced(Reaper, <<"s.Unlock">>)
  /\ UNCHANGED <<userVars, users, chName, chServer, chKeep, usersIdx, closes,
                 connVars, out, events, hsVars, dispVars, panicked, spc,
                 channelEvents, sends, unlinks, hbatch, encIn, inviteOnly, encRes>>

\* ------------------------------------------------------------ the reaper specification
\* Two clients join and part channels made with and without keepEmpty while
\* the reaper handles the events of those channels.
InitReap == InitConns(ReapConns, ReapCmds, {})

NextReap ==
  \/ \E u \in Users : \E m \in CoreHsInputs(u) : HandshakeMsg(u, m)
  \/ \E u \in Users : Welcome(u)
  \/ \E u \in Users : ConnectPublish(u)
  \/ \E u \in Users : \E k \in KeepChoices : HandleJoin(u, ChanChat, k)
  \/ \E u \in Users : JoinInsert(u)
  \/ \E u \in Users : JoinBroadcast(u)
  \/ \E u \in Users : JoinReply(u)
  \/ \E u \in Users : HandlePart(u, ChanChat)
  \/ \E u \in Users : ChannelPart(u)
  \/ CleanupStart
  \/ \E k \in EventKinds : \E c \in ChanObjs : EmitEvent(k, c)
  \/ CleanupRecv
  \/ CleanupLock
  \/ CleanupLen
  \/ CleanupDelete

SpecReap == InitReap /\ [][NextReap]_vars

LockKinds == {"locks"}
LockNicks == {NickFoo, NickBaz}
LockTargets == {ChanChat, NickBaz}
InitLock == InitConns(LockConns, LockCmds, LockKinds)

NextLock ==
  \/ \E u \in Users : \E m \in CoreHsInputs(u) : HandshakeMsg(u, m)
  \/ \E u \in Users : Welcome(u)
  \/ \E u \in Users : ConnectPublish(u)
  \/ \E u \in Users : HandleQuit(u, NoName)
  \/ \E u \in Users : \E n \in LockNicks : HandleNick(u, n)
  \/ \E u \in Users : NickBroadcast(u)
  \/ \E u \in Users : \E k \in KeepChoices : HandleJoin(u, ChanChat, k)
  \/ \E u \in Users : JoinInsert(u)
  \/ \E u \in Users : JoinBroadcast(u)
  \/ \E u \in Users : JoinReply(u)
  \/ \E u \in Users : HandlePart(u, ChanChat)
  \/ \E u \in Users : ChannelPart(u)
  \/ \E u \in Users : \E n \in LockTargets : HandlePrivmsg(u, n, TextHello)
  \/ \E c \in ChanObjs : ChannelClose(c)
  \/ \E u \in Users : Quit(u)
  \/ \E u \in Users : CloseRun(u)
  \/ CleanupStart
  \/ \E c \in ChanObjs : EmitEvent("EmptyChannel", c)
  \/ CleanupRecv
  \/ CleanupLock
  \/ CleanupLen
  \/ CleanupDelete

SpecLock == InitLock /\ [][NextLock]_vars

\* The calls that take and release the registry lock, a channel lock and a
\* user lock.
RegAcquire == {"s.Lock", "s.RLock"}
RegRelease == {"s.Unlock", "s.RUnlock"}
ChanAcquire == {"ch.mu.Lock", "ch.mu.RLock"}
ChanRelease == {"ch.mu.Unlock", "ch.mu.RUnlock"}
UserAcquire == {"u.Lock"}
UserRelease == {"u.Unlock"}

\* The thread whose calls are tr holds a lock of the class at its i-th call.
HeldAt(tr, i, acquire, release) ==
  Cardinality({j \in 1..(i - 1) : tr[j] \in acquire})
    > Cardinality({j \in 1..(i - 1) : tr[j] \in release})

\* C26 (as claimed): no thread takes the registry lock while it holds a channel
\* lock or a user lock, nor a channel lock while it holds a user lock.
C26_LockOrder ==
  \A t \in Threads : \A i \in 1..Len(ltrace[t]) :
    /\ ltrace[t][i] \in RegAcquire =>
         /\ ~HeldAt(ltrace[t], i, ChanAcquire, ChanRelease)
         /\ ~HeldAt(ltrace[t], i, UserAcquire, UserRelease)
    /\ ltrace[t][i] \in ChanAcquire =>
         ~HeldAt(ltrace[t], i, UserAcquire, UserRelease)

\* A thread has taken a second lock while holding a first one.
C26_Witness ==
  \E t \in Threads : \E i \in 1..Len(ltrace[t]) :
    /\ ltrace[t][i] \in RegAcquire \cup ChanAcquire \cup UserAcquire
    /\ \/ HeldAt(ltrace[t], i, RegAcquire, RegRelease)
       \/ HeldAt(ltrace[t], i, ChanAcquire, ChanRelease)
       \/ HeldAt(ltrace[t], i, UserAcquire, UserRelease)

\* C29: no thread encodes a message to a transport while it holds the registry
\* lock: every Encode of RenameUser, Quit, Channel, HasUser, HasChannel and of
\* their callers comes after the unlock.
C29_NoEncodeUnderRegistryLock ==
  \A t \in Threads : \A i \in 1..Len(ltrace[t]) :
    ltrace[t][i] = "Encode" => ~HeldAt(ltrace[t], i, RegAcquire, RegRelease)

\* RenameUser has found the nick taken, unlocked, and written
\* ERR_NICKNAMEINUSE; another dispatcher has written after HasChannel's unlock.
C29_Witness ==
  \E u \in Users : \E v \in Users \ {u} :
    /\ ltrace[u] = <<"s.Lock", "s.Unlock", "Encode">>
    /\ hpc[u] = "loop" /\ cmdsLeft[u] < LockCmds
    /\ ltrace[v] = <<"s.RLock", "s.RUnlock", "Encode">>

\* ------------------------------------------------------------ the shutdown specification
\* Two clients register and send PING or QUIT while the embedding program
\* closes the server; no thread that can take a step waits forever.
InitShutdown == InitConns(ShutConns, ShutCmds, {})

NextShutdown ==
  \/ \E u \in Users : \E m \in CoreHsInputs(u) : HandshakeMsg(u, m)
  \/ \E u \in Users : Welcome(u)
  \/ \E u \in Users : ConnectPublish(u)
  \/ \E u \in Users : HandleDecodeErr(u)
  \/ \E u \in Users : HandleQuit(u, NoName)
  \/ \E u \in Users : PingDecoded(u, TextHello)
  \/ \E u \in Users : PongEncode(u)
  \/ \E u \in Users : Quit(u)
  \/ \E u \in Users : CloseRun(u)
  \/ ServerCloseLock
  \/ ServerCloseUsers
  \/ ServerCloseUnlock

\* The Go scheduler runs every goroutine that is not blocked: Connect, the
\* dispatchers, the closing goroutines and the thread inside Server.Close.
FairShutdown ==
  /\ \A u \in Users :
       /\ WF_vars(Welcome(u))
       /\ WF_vars(ConnectPublish(u))
       /\ WF_vars(HandleDecodeErr(u))
       /\ WF_vars(PongEncode(u))
       /\ WF_vars(Quit(u))
       /\ WF_vars(CloseRun(u))
  /\ WF_vars(ServerCloseUsers)
  /\ WF_vars(ServerCloseUnlock)

SpecShutdown == InitShutdown /\ [][NextShutdown]_vars /\ FairShutdown

\* The dispatcher of u is running.
Dispatching(u) == hpc[u] \notin {"none", "exit"}

\* C30 (as claimed): once Server.Close has closed the users, the transport of
\* every user in the registry is closed, every running dispatcher eventually
\* returns, every user that was in the registry is eventually removed from
\* it, and Server.Close returns.
C30_CloseTerminatesAll ==
  /\ [](spc = "closed" => \A u \in Users : InRegistry(u) => ~up[u])
  /\ \A u \in Users : (spc = "closed" /\ Dispatching(u)) ~> (hpc[u] = "exit")
  /\ \A u \in Users : (spc = "closed" /\ InRegistry(u)) ~> ~InRegistry(u)
  /\ (spc = "locked") ~> (spc = "done")

\* Server.Close has returned, and a user it closed has left: its dispatcher
\* has returned, its registry entry is deleted.
C30_Witness ==
  /\ spc = "done"
  /\ \E u \in Users : hpc[u] = "exit" /\ ~InRegistry(u) /\ closeCount[u] >= 1 /\ ~up[u]

\* ------------------------------------------------------------ the quit specification
\* Two clients register, send PING and QUIT (with and without a trailing),
\* and connections break; the QUIT and ERROR messages, the PONGs and the Quit
\* events are observed.
QuitKinds == {"QUIT", "ERROR", "PONG", "Quit"}
QuitTexts == {NoName, TextHello}
InitQuit == InitConns(QuitConns, QuitCmds, QuitKinds)

NextQuit ==
  \/ \E u \in Users : \E m \in CoreHsInputs(u) : HandshakeMsg(u, m)
  \/ \E u \in Users : Welcome(u)
  \/ \E u \in Users : ConnectPublish(u)
  \/ \E u \in Users : ClientDrop(u)
  \/ \E u \in Users : HandleDecodeErr(u)
  \/ \E u \in Users : \E t \in QuitTexts : HandleQuit(u, t)
  \/ \E u \in Users : PingDecoded(u, TextHello)
  \/ \E u \in Users : PongEncode(u)
  \/ \E u \in Users : Quit(u)
  \/ \E u \in Users : CloseRun(u)

SpecQuit == InitQuit /\ [][NextQuit]_vars

\* The Quit events published for u.
QuitEventsOf(u) ==
  {i \in 1..Len(events) : events[i].kind = "Quit" /\ events[i].user = u}
ErrorMissed == Msg("ERROR", SrvName, <<>>, <<"m","i","s","s","e","d">>)

\* C31: the dispatcher that handles QUIT on a working transport writes to its
\* user the QUIT echo with the QUIT's trailing and then the ERROR, nothing
\* else to anybody, and publishes one Quit event; from then on it decodes no
\* message and only the deferred Quit follows; the transport is not closed by
\* this dispatcher before Quit has run, that is, after both writes.
C31_Step ==
  /\ \A u \in Users : \A t \in QuitTexts :
       HandleQuit(u, t) =>
         /\ out' = [out EXCEPT ![u] = out[u] \o <<Msg("QUIT", Nick[u], <<>>, t), ErrorMissed>>]
         /\ events' = Append(events, [kind |-> "Quit", user |-> u, chan |-> 0])
         /\ hpc'[u] = "quit"
         /\ closers' = closers /\ closeCount' = closeCount /\ up' = up
  /\ \A u \in Users :
       hpc[u] \in {"quit", "exit"} =>
         /\ cmdsLeft'[u] = cmdsLeft[u]
         /\ hpc'[u] # hpc[u] => (Quit(u) /\ hpc'[u] = "exit")
         /\ out'[u] = out[u]
         /\ QuitEventsOf(u)' = QuitEventsOf(u)
  /\ \A u \in Users :
       closers'[u] > closers[u] => (Quit(u) /\ hpc[u] = "quit")
C31_State ==
  \A u \in Users :
    /\ Cardinality(QuitEventsOf(u)) <= 1
    /\ (hpc[u] \in {"loop", "pong"}) => (closers[u] = 0 /\ QuitEventsOf(u) = {})
C31_QuitSequence == []C31_State /\ [][C31_Step]_vars

\* A client's QUIT with a trailing was handled after a PING: its stream ends
\* with the QUIT echo and the ERROR, the deferred Quit has run and the closing
\* goroutine has closed the transport.
C31_Witness ==
  \E u \in Users :
    /\ hpc[u] = "exit" /\ closers[u] = 0 /\ closeCount[u] = 1 /\ ~up[u]
    /\ Len(out[u]) = 3 /\ out[u][1].cmd = "PONG"
    /\ out[u][2] = Msg("QUIT", Nick[u], <<>>, TextHello)
    /\ out[u][3] = ErrorMissed
    /\ Cardinality(QuitEventsOf(u)) = 1

\* ------------------------------------------------------------ the failing write specification
\* Three clients register and join a channel, one connection breaks, and the
\* others talk to the channel and to each other, rename and part; the PRIVMSG,
\* JOIN, PART and NICK messages are observed. The events are not, and Connect
\* is followed up to the start of the dispatcher.
FailKinds == {"PRIVMSG", "JOIN", "PART", "NICK"}
FailNicks == {<<"r">>}
FailTargets == {ChanChat, <<"q">>}
\* The first client is the one that talks, renames and parts; the connection of
\* the third is the one that breaks.
FailSender == 1
FailBroken == 3
InitFail == InitConns(FailConns, FailCmds, FailKinds)

NextFail ==
  \/ \E u \in Users : \E m \in CoreHsInputs(u) : HandshakeMsg(u, m)
  \/ \E u \in Users : Welcome(u)
  \/ ClientDrop(FailBroken)
  \/ \E u \in Users : HandleDecodeErr(u)
  \/ \E u \in Users : HandleJoin(u, ChanChat, FALSE)
  \/ \E u \in Users : JoinInsert(u)
  \/ \E u \in Users : JoinBroadcast(u)
  \/ \E u \in Users : JoinReply(u)
  \/ HandlePart(FailSender, ChanChat)
  \/ \E u \in Users : ChannelPart(u)
  \/ \E n \in FailNicks : HandleNick(FailSender, n)
  \/ \E u \in Users : NickBroadcast(u)
  \/ \E n \in FailTargets : HandlePrivmsg(FailSender, n, TextHello)
  \/ \E u \in Users : Quit(u)
  \/ \E u \in Users : CloseRun(u)

SpecFail == InitFail /\ [][NextFail]_vars

\* The stream of v has grown by exactly one message, of the given command.
GotOne(v, cmd) ==
  /\ Len(out'[v]) = Len(out[v]) + 1
  /\ SubSeq(out'[v], 1, Len(out[v])) = out[v]
  /\ out'[v][Len(out'[v])].cmd = cmd
\* A message of the given command went to the recipients R, one of them with
\* a broken transport: the others got it, and the sender u goes on at pc.
Survives(u, R, cmd, pc) ==
  (\E v \in R : ~up[v]) =>
    /\ \A v \in R : IF up[v] THEN GotOne(v, cmd) ELSE out'[v] = out[v]
    /\ hpc'[u] = pc
    /\ \A v \in Users \ {u} : hpc'[v] = hpc[v]
    /\ up' = up /\ closers' = closers /\ closeCount' = closeCount
    /\ panicked' = panicked

\* C32: when a write to a recipient fails during a channel PRIVMSG, a JOIN,
\* PART or NICK broadcast or a private PRIVMSG, every other recipient still
\* gets the message, the sender's dispatcher goes on, and no other dispatcher
\* and no transport is touched.
C32_FailedWriteIsLocal ==
  [][\A u \in Users :
       /\ \A n \in FailTargets :
            HandlePrivmsg(u, n, TextHello) =>
              /\ Route(n) = "chan" =>
                    Survives(u, usersIdx[channels[ID(n)]] \ {u}, "PRIVMSG", "loop")
              /\ Route(n) = "user" =>
                    Survives(u, {users[ID(n)]}, "PRIVMSG", "loop")
       /\ JoinBroadcast(u) => Survives(u, usersIdx[hch[u]], "JOIN", "join_reply")
       /\ (ChannelPart(u) /\ u \in usersIdx[hch[u]]) =>
            Survives(u, usersIdx[hch[u]], "PART", "loop")
       /\ NickBroadcast(u) => Survives(u, {u} \cup VisibleTo(u), "NICK", "loop")]_vars

\* All three are members; the second saw the third join and then got the
\* first one's PRIVMSG to the channel; the third, its transport broken, did
\* not get it; the first one's dispatcher is back in its loop.
C32_Witness ==
  \E c \in ChanObjs :
    /\ usersIdx[c] = {1, 2, 3} /\ ~up[FailBroken] /\ up[2]
    /\ hpc[FailSender] = "loop" /\ sent[FailSender] # <<>>
    /\ \E i, j \in 1..Len(out[2]) :
         /\ i < j /\ out[2][i].cmd = "JOIN" /\ out[2][i].pfx = Nick[FailBroken]
         /\ out[2][j].cmd = "PRIVMSG" /\ out[2][j].p = <<ChanChat>>
    /\ \A i \in 1..Len(out[FailBroken]) : out[FailBroken][i].cmd # "PRIVMSG"

\* ------------------------------------------------------------ the invite-only specification
\* Two clients register and send JOIN to a server that is, or is not,
\* invite-only; the numeric, the JOIN messages and the events are observed.
InviteKinds == {"473", "JOIN", "Join", "NewChannel"}
InitInvite ==
  /\ InitBase(InviteConns, InviteCmds, InviteKinds)
  /\ encIn = [msgs |-> <<>>, fails |-> <<>>]
  /\ inviteOnly \in BOOLEAN

NextInvite ==
  \/ \E u \in Users : \E m \in CoreHsInputs(u) : HandshakeMsg(u, m)
  \/ \E u \in Users : Welcome(u)
  \/ \E u \in Users : ConnectPublish(u)
  \/ \E u \in Users : \E n \in MemberChans : HandleJoin(u, n, FALSE)
  \/ \E u \in Users : \E n \in MemberChans : HandleJoinInviteOnly(u, n)
  \/ \E u \in Users : JoinInsert(u)
  \/ \E u \in Users : JoinBroadcast(u)
  \/ \E u \in Users : JoinReply(u)

SpecInvite == InitInvite /\ [][NextInvite]_vars

\* C33: on an invite-only server a JOIN with a parameter writes
\* ERR_INVITEONLYCHAN to the sender and does nothing else: no channel exists
\* or gets a member, no JOIN is written, no Join or NewChannel event is
\* published, and the dispatcher goes on with its loop.
C33_State ==
  inviteOnly =>
    /\ channels = EmptyMap
    /\ \A c \in ChanObjs : chName[c] = NoName /\ usersIdx[c] = {}
    /\ \A u \in Users : uchannels[u] = {} /\ hpc[u] \in {"none", "loop"}
    /\ \A u \in Users : \A i \in 1..Len(out[u]) : out[u][i].cmd = "473"
    /\ events = <<>>
C33_Step ==
  \A u \in Users : \A n \in MemberChans :
    HandleJoinInviteOnly(u, n) =>
      /\ out' = [out EXCEPT ![u] = Append(@, Msg("473", SrvName, <<>>, TextInvite))]
      /\ hpc'[u] = "loop"
      /\ UNCHANGED <<chanVars, userVars, users, events>>
C33_InviteOnlyJoin == []C33_State /\ [][C33_Step]_vars

\* On an invite-only server both clients have sent JOIN, one of them twice.
C33_Witness ==
  /\ inviteOnly
  /\ \E u \in Users : \E v \in Users \ {u} :
       /\ Len(out[u]) = 2 /\ Len(out[v]) = 1 /\ out[v][1].cmd = "473"
       /\ cmdsLeft[u] = 0 /\ hpc[u] = "loop" /\ hpc[v] = "loop"

\* ------------------------------------------------------------ User.ForSeen
\* The elements of a set in one of the orders a `range` may take.
RECURSIVE RangeOver(_)
RangeOver(S) ==
  IF S = {} THEN <<>>
  ELSE LET x == CHOOSE y \in S : TRUE IN <<x>> \o RangeOver(S \ {x})

\* ForSeen: `seen` starts as {u}; for each channel of u.Channels, each user of
\* the channel not seen yet is marked seen and visited.
RECURSIVE ForSeenFrom(_, _, _)
ForSeenFrom(chans, seen, visited) ==
  IF chans = <<>> THEN visited
  ELSE LET fresh == usersIdx[Head(chans)] \ seen
       IN  ForSeenFrom(Tail(chans), seen \cup fresh, visited \o RangeOver(fresh))
ForSeen(u) == ForSeenFrom(RangeOver(uchannels[u]), {u}, <<>>)

\* The users other than u that are members of a channel u is a member of.
SharingWith(u) ==
  {v \in Users \ {u} : \E c \in ChanObjs : u \in usersIdx[c] /\ v \in usersIdx[c]}

\* C34 (as claimed): the users visited for u are exactly the users other than u
\* that share a channel with u, each visited once and u never.
C34_VisitedAreSharing ==
  \A u \in Users :
    LET vis == ForSeen(u)
    IN  /\ {vis[i] : i \in 1..Len(vis)} = SharingWith(u)
        /\ \A i, j \in 1..Len(vis) : vis[i] = vis[j] => i = j
        /\ \A i \in 1..Len(vis) : vis[i] # u

\* Two users are members of a channel and the channel is in the channel set
\* of both: each is the one user visited for the other.
C34_Witness ==
  \E u \in Users : \E v \in Users \ {u} : \E c \in ChanObjs :
    /\ usersIdx[c] = {u, v} /\ c \in uchannels[u] /\ c \in uchannels[v]
    /\ ForSeen(u) = <<v>> /\ ForSeen(v) = <<u>>
    /\ SharingWith(u) = {v}

\* ------------------------------------------------------------ Connect's error return
\* C35 (as claimed): once Connect has returned an error for a user, that user
\* is not in the registry, also when the handshake had stored it with add and
\* the write of RPL_WELCOME failed.
C35_FailedConnectNotRegistered ==
  \A u \in Users : connRet[u] \notin {"none", "nil"} => ~InRegistry(u)

\* Connect has returned the error of the welcome write for a user that add
\* had stored, and has closed it; no dispatcher was started for it.
C35_Witness ==
  \E u \in Users :
    /\ connRet[u] = "errEncode" /\ cpc[u] = "failed" /\ hpc[u] = "none"
    /\ closeCount[u] >= 1 /\ ~up[u]

\* ------------------------------------------------------------ members and the index
\* C36 (as claimed): every channel that has a member is stored in the index
\* under its ID, and the replies of Join are written without failing on the
\* channel's server reference.
C36_MembersAreIndexed ==
  /\ [](\A c \in ChanObjs : usersIdx[c] # {} => StoredIs(c))
  /\ [][\A u \in Users : JoinReply(u) => ~panicked']_vars

\* A dispatcher got the channel from Server.Channel, the Part of the last
\* member has unlinked it, and Join has inserted the user: its replies, with
\* ch.server.Prefix(), are next.
C36_Witness ==
  \E u \in Users :
    /\ hpc[u] = "join_reply" /\ ~panicked
    /\ usersIdx[hch[u]] = {u} /\ ~chServer[hch[u]] /\ ~StoredIs(hch[u])
    /\ ~HasChannel(chName[hch[u]])

\* ---------------------------------------------------------------------
\* Lock waits: channel.Part against the reaper.

DeadConns == 2
DeadCmds == 2

InitDead == InitConns(DeadConns, DeadCmds, {"locks"})

NextDead ==
  \/ \E u \in Users : \E m \in CoreHsInputs(u) : HandshakeMsg(u, m)
  \/ \E u \in Users : Welcome(u)
  \/ \E u \in Users : ConnectPublish(u)
  \/ \E u \in Users : \E k \in KeepChoices : HandleJoin(u, ChanChat, k)
  \/ \E u \in Users : JoinInsert(u)
  \/ \E u \in Users : JoinBroadcast(u)
  \/ \E u \in Users : JoinReply(u)
  \/ \E u \in Users : HandlePart(u, ChanChat)
  \/ \E u \in Users : hpc[u] = "part" /\ ~PartUnlinks(u) /\ ChannelPart(u)
  \/ \E u \in Users : PartLocked(u)
  \/ \E u \in Users : PartUnlink(u)
  \/ CleanupStart
  \/ \E c \in ChanObjs : EmitEvent("EmptyChannel", c)
  \/ CleanupRecv
  \/ CleanupLock
  \/ CleanupLen
  \/ CleanupDelete

SpecDead == InitDead /\ [][NextDead]_vars

\* Thread t holds lock class `acquire` at the end of its trace.
HoldsNow(t, acquire, release) ==
  HeldAt(ltrace[t], Len(ltrace[t]) + 1, acquire, release)

\* A Part that holds ch.mu waits for the registry lock held by the reaper,
\* which waits in ch.Len() for the ch.mu of that same channel.
PartReaperCycle(u) ==
  /\ hpc[u] = "part_unlink" /\ ~RegFree
  /\ rpc = "len" /\ rch = hch[u]

\* C37 (as claimed): no thread re-acquires a lock it already holds, no handler
\* is back in its read loop with the registry lock held, and no two threads
\* wait for locks in a cycle.
C37_NoLockDeadlock ==
  /\ \A t \in Threads : \A i \in 1..Len(ltrace[t]) :
       /\ (ltrace[t][i] \in RegAcquire =>
             ~HeldAt(ltrace[t], i, RegAcquire, RegRelease))
       /\ (ltrace[t][i] \in ChanAcquire =>
             ~HeldAt(ltrace[t], i, ChanAcquire, ChanRelease))
  /\ \A u \in Users : hpc[u] = "loop" => ~HoldsNow(u, RegAcquire, RegRelease)
  /\ \A u \in Users : ~PartReaperCycle(u)

\* The reaper holds the registry lock for a stored channel while no Part is
\* between its delete and its UnlinkChannel.
C37_Witness ==
  /\ rpc = "len" /\ ~RegFree
  /\ \A u \in Users : hpc[u] # "part_unlink"

\* ---------------------------------------------------------------------
\* Server.Quit called again by the embedding program.

RequitConns == 2
RequitCmds == 2
\* Calls of Server.Quit per user, the dispatcher's own included.
MaxQuits == 2

\* Server.Quit(u, msg) of the Server interface, called by the embedding program
\* for a user whose dispatcher has already quit: go u.Close(), then under the
\* lock delete(s.users, u.ID()).
EmbedderQuit(u) ==
  /\ ~panicked /\ hpc[u] = "exit"
  /\ closeCount[u] + closers[u] < MaxQuits
  /\ RegFree
  /\ closers' = [closers EXCEPT ![u] = @ + 1]
  /\ users' = MapDel(users, ID(Nick[u]))
  /\ UNCHANGED <<userVars, chanVars, up, closeCount, drops, rec, out, events,
                 hsVars, dispVars, panicked>>
  /\ UNCHANGED extVars
  /\ ltrace' = Traced(Embedder, <<"s.Lock", "s.Unlock">>)

RequitNicks == {NickFoo, NickBaz}

InitRequit == InitConns(RequitConns, RequitCmds, {})

NextRequit ==
  \/ \E u \in Users : \E m \in CoreHsInputs(u) : HandshakeMsg(u, m)
  \/ \E u \in Users : Welcome(u)
  \/ \E u \in Users : HandleQuit(u, NoName)
  \/ \E u \in Users : \E n \in RequitNicks : HandleNick(u, n)
  \/ \E u \in Users : NickBroadcast(u)
  \/ \E u \in Users : Quit(u)
  \/ \E u \in Users : CloseRun(u)
  \/ \E u \in Users : EmbedderQuit(u)

SpecRequit == InitRequit /\ [][NextRequit]_vars

\* C38 (as claimed): a call of Server.Quit for u removes no registry entry that
\* belongs to another user: every such entry is still there after the call.
C38_QuitRemovesOwnEntryOnly ==
  [][\A u \in Users : (Quit(u) \/ EmbedderQuit(u)) =>
       \A id \in DOMAIN users : users[id] # u =>
         (id \in DOMAIN users' /\ users'[id] = users[id])]_vars

\* Server.Quit has run twice for a user while another user is registered.
C38_Witness ==
  \E u \in Users : \E v \in Users \ {u} :
    /\ hpc[u] = "exit" /\ closeCount[u] + closers[u] = MaxQuits
    /\ InRegistry(v)

\* ---------------------------------------------------------------------
\* Join events against insertions.

\* The Join events published for u, over all channels.
JoinEventsOf(u) ==
  Len(SelectSeq(events, LAMBDA e : e.kind = "Join" /\ e.user = u))

\* C39 (as claimed): a Join event is published only for a JOIN that added the
\* user: there are never more Join events for a user than JOIN messages of its
\* own insertions written to it, and the Join of a user that is already a
\* member publishes nothing.
C39_JoinEventOnlyOnInsert ==
  /\ [](\A u \in Users : JoinEventsOf(u) <= OwnJoins(u))
  /\ [][\A u \in Users : JoinInsert(u) /\ AlreadyMember(u, hch[u])
          => events' = events]_vars

\* A first join has completed: one insertion, one Join event.
C39_Witness ==
  \E u \in Users : \E c \in ChanObjs :
    /\ JoinEvents(u, c) = 1 /\ OwnJoins(u) = 1
    /\ hpc[u] = "loop" /\ u \in usersIdx[c] /\ cmdsLeft[u] = MemberCmds - 1

\* ---------------------------------------------------------------------
\* Rename of a channel member.

RenameConns == 2
RenameCmds == 4

RenameKinds == {"PRIVMSG", "JOIN", "PART", "NICK", "442"}
RenameNicks == {<<"r">>}
\* The first client is the one that renames, talks and parts.
RenameSender == 1

InitRename == InitConns(RenameConns, RenameCmds, RenameKinds)

NextRename ==
  \/ \E u \in Users : \E m \in CoreHsInputs(u) : HandshakeMsg(u, m)
  \/ \E u \in Users : Welcome(u)
  \/ \E u \in Users : HandleJoin(u, ChanChat, FALSE)
  \/ \E u \in Users : JoinInsert(u)
  \/ \E u \in Users : JoinBroadcast(u)
  \/ \E u \in Users : JoinReply(u)
  \/ \E n \in RenameNicks : HandleNick(RenameSender, n)
  \/ \E u \in Users : NickBroadcast(u)
  \/ \E u \in Users : HandlePrivmsg(u, ChanChat, TextHello)
  \/ HandlePart(RenameSender, ChanChat)
  \/ \E u \in Users : ChannelPart(u)

SpecRename == InitRename /\ [][NextRename]_vars

\* u has changed its nick.
Renamed(u) == Nick[u] \in RenameNicks
\* u joined channel object c and no PART has been written to it since.
StillJoined(u, c) ==
  /\ c \in uchannels[u]
  /\ \A i \in 1..Len(out[u]) : out[u][i].cmd # "PART"

\* C40 (as claimed): a rename changes the member set of no channel; the Part
\* of a renamed user from a channel it had joined finds it as a member (PART
\* is written to it, not ERR_NOTONCHANNEL, and it leaves the member set); and
\* a channel PRIVMSG of a renamed member goes to every other member and not
\* to the sender.
C40_RenameKeepsMembership ==
  /\ [][\A u \in Users :
          ((\E n \in RenameNicks : HandleNick(u, n)) \/ NickBroadcast(u))
            => usersIdx' = usersIdx]_vars
  /\ [][\A u \in Users :
          ChannelPart(u) /\ Renamed(u) /\ StillJoined(u, hch[u]) =>
            /\ u \in usersIdx[hch[u]] /\ u \notin usersIdx'[hch[u]]
            /\ out'[u] = Append(out[u], Msg("PART", Nick[u], <<ChanChat>>, NoName))]_vars
  /\ [][\A u \in Users :
          HandlePrivmsg(u, ChanChat, TextHello) /\ Renamed(u)
            /\ MapHas(channels, ID(ChanChat))
            /\ StillJoined(u, channels[ID(ChanChat)]) =>
            /\ out'[u] = out[u]
            /\ \A v \in usersIdx[channels[ID(ChanChat)]] \ {u} :
                 Len(out'[v]) = Len(out[v]) + 1]_vars

\* The renamed client has talked to the channel it was in, with a second
\* member present, and has parted from it.
C40_Witness ==
  /\ Renamed(RenameSender) /\ sent[RenameSender] # <<>>
  /\ \E i \in 1..Len(out[RenameSender]) :
       /\ out[RenameSender][i].cmd = "PART"
       /\ out[RenameSender][i].pfx \in RenameNicks
  /\ \E v \in Users \ {RenameSender} : \E i \in 1..Len(out[v]) :
       /\ out[v][i].cmd = "PRIVMSG"
       /\ out[v][i].pfx \in RenameNicks

====
